---- MODULE Spec2Model ----
(***************************************************************************)
(* A state-machine model of the erads admission service (rishisurf/erads): *)
(* the rate-limit counter store, the ban registry, the API-key registry,   *)
(* the request log and the admission pipeline RateLimiterService.check.    *)
(*                                                                         *)
(* Time.  Date.now() is the variable now, in milliseconds.  SQLite's       *)
(* datetime('now') has second precision and the text form                  *)
(* 'YYYY-MM-DD HH:MM:SS'; Date.toISOString() has millisecond precision and *)
(* the text form 'YYYY-MM-DDTHH:MM:SS.sssZ'.  A column holding one form is *)
(* modelled by the number it encodes (seconds, resp. milliseconds), and    *)
(* every comparison the code makes between two texts is modelled by the    *)
(* order of the texts, see SqlTextGreater and IsoGreaterThanSqlText.       *)
(* All Date.now() reads of one synchronous run of a handler return the     *)
(* same instant.                                                           *)
(*                                                                         *)
(* Scheduling.  The service is one Bun process; bun:sqlite calls are       *)
(* synchronous, so a handler runs without interleaving up to its next      *)
(* await.  RateLimiterService.check has one await (of detectAbuse, whose   *)
(* body has none), hence two atomic steps: CheckBegin and CheckResume.     *)
(***************************************************************************)
EXTENDS Integers, Sequences, FiniteSets, TLC

VARIABLES
    now,            \* Date.now(), milliseconds
    ticks,          \* number of clock advances so far (bounds the run)
    cfg,            \* config (config/env.ts), fixed at startup
    api_keys,       \* table api_keys
    rate_limits,    \* table rate_limits
    bans,           \* table bans
    settings,       \* table settings
    blocked_countries, \* table blocked_countries
    intelCfg,       \* ipIntelConfig (ip-intel/config.ts), fixed at startup
    ip_reputation,  \* table ip_reputation
    asn_cache,      \* table asn_cache
    tor_nodes,      \* table tor_nodes
    ip_intel_blocks, \* table ip_intel_blocks
    provider_cache, \* table provider_cache
    ip_intel_stats, \* table ip_intel_stats
    lookups,        \* the classifyIP() calls in flight (awaiting a fetch)
    torUpdater,     \* tor-list.ts: isUpdating, lastUpdate, fetches in flight
    request_logs,   \* table request_logs
    issued,         \* plaintext keys generateApiKey has returned so far
    nextId,         \* nanoid(): rows are numbered in creation order
    calls,          \* the check() calls in flight (suspended at their await)
    nCalls,         \* number of check() calls started (bounds the run)
    nAdmin,         \* number of admin operations made (bounds the run)
    hist,           \* counter-store checks made so far, oldest first
    lastOp          \* the last operation completed and what it returned

geoVars == <<settings, blocked_countries>>

intelTables == <<ip_reputation, asn_cache, tor_nodes, ip_intel_blocks,
                 provider_cache, ip_intel_stats>>

intelVars == <<intelCfg, intelTables, lookups, torUpdater>>

vars == <<now, ticks, cfg, api_keys, rate_limits, bans, request_logs, geoVars, intelVars,
          issued, nextId, calls, nCalls, nAdmin, hist, lastOp>>

----------------------------------------------------------------------------
(* Bounds of the model.                                                    *)

MaxTicks == 4        \* clock advances in a run of SpecCounter
MaxCalls == 4        \* check() calls in a run of SpecCounter
MaxAdminTicks == 2   \* clock advances in a run with admin operations
MaxAdminCalls == 3   \* check() calls in a run with admin operations
MaxLimit == 2        \* largest rate limit configured
MaxWindowSeconds == 2 \* longest window configured, seconds
MaxInFlight == 2     \* check() calls in flight together in SpecCounter
MaxAdminInFlight == 1 \* check() calls in flight together in a run with admin operations
MaxAdmin == 3        \* admin operations (on keys and bans) in a run
MaxIntelAdmin == 2   \* block and Tor list operations in a run of SpecIntel
MaxIntelCalls == 2   \* classifyIP() calls in a run of SpecIntel
MaxIntelTicks == 1   \* clock advances in a run of SpecIntel
MaxKeys == 1         \* keys created in a run
MaxBurstThreshold == 3 \* largest burst threshold configured

(* Program constants.                                                      *)

MsPerSecond == 1000
SecondsPerDay == 86400
BaselinePeriodMinutes == 60
SecondsPerMinute == 60

----------------------------------------------------------------------------
(* SQL NULL / undefined: an optional value is a set with at most one       *)
(* element.                                                                *)

Null == {}
Some(x) == {x}
The(s) == CHOOSE x \in s : TRUE

Max(a, b) == IF a >= b THEN a ELSE b

(* Math.ceil(a / b) for b > 0 and any integer a.                           *)
CeilDiv(a, b) == -((-a) \div b)

----------------------------------------------------------------------------
(* Text forms of timestamps.                                               *)

(* datetime('now'): the current second.                                    *)
SqlNow(t) == t \div MsPerSecond

(* datetime('now', '-n seconds').                                          *)
SqlNowMinus(t, n) == SqlNow(t) - n

(* The day (the 'YYYY-MM-DD' prefix) of either text form.                  *)
DayOfSql(s) == s \div SecondsPerDay
DayOfIso(ms) == (ms \div MsPerSecond) \div SecondsPerDay

(* a > b for two texts 'YYYY-MM-DD HH:MM:SS': the order of the seconds.    *)
SqlTextGreater(a, b) == a > b

(* iso > sql for the text iso = 'YYYY-MM-DDTHH:MM:SS.sssZ' and the text    *)
(* sql = 'YYYY-MM-DD HH:MM:SS', as SQLite compares TEXT (bytewise): the    *)
(* first ten characters decide when the days differ; when the days are     *)
(* equal the eleventh decides, and 'T' (0x54) is greater than ' ' (0x20).  *)
IsoGreaterThanSqlText(iso, sql) == DayOfIso(iso) >= DayOfSql(sql)

(* iso < sql, same texts: strictly earlier day only.                       *)
IsoLessThanSqlText(iso, sql) == DayOfIso(iso) < DayOfSql(sql)

----------------------------------------------------------------------------
(* Counter store: RateLimitRepository.                                     *)
(* A row of rate_limits is [identifier, identifier_type, window_start,     *)
(* request_count]; window_start is the ISO text of the window's first      *)
(* millisecond.  (identifier, identifier_type, window_start) is UNIQUE.    *)

getWindowStart(t, windowSeconds) ==
    (((t \div MsPerSecond) \div windowSeconds) * windowSeconds) * MsPerSecond

getPreviousWindowStart(t, windowSeconds) ==
    ((((t \div MsPerSecond) \div windowSeconds) * windowSeconds) - windowSeconds)
        * MsPerSecond

(* SELECT ... WHERE identifier = ? AND identifier_type = ? AND             *)
(* window_start = ?  (at most one row).                                    *)
SelectWindow(table, identifier, identifierType, windowStart) ==
    {r \in table : /\ r.identifier = identifier
                   /\ r.identifier_type = identifierType
                   /\ r.window_start = windowStart}

(* An increment that is lost: the row keeps the count that was read.       *)
IncrementWindowLost(table, identifier, identifierType, windowStart) == table

(* UPDATE rate_limits SET request_count = request_count + 1 for one row.   *)
IncrementWindow(table, identifier, identifierType, windowStart) ==
    {IF /\ r.identifier = identifier
        /\ r.identifier_type = identifierType
        /\ r.window_start = windowStart
     THEN [r EXCEPT !.request_count = @ + 1]
     ELSE r : r \in table}

InsertWindow(table, identifier, identifierType, windowStart, count) ==
    table \cup {[identifier |-> identifier, identifier_type |-> identifierType,
                 window_start |-> windowStart, request_count |-> count]}

(* An admission test that lets the (limit + 1)-th request through.         *)
FixedAllowedInclusive(currentCount, limit) == currentCount <= limit

(* allowed = currentCount < limitConfig.limit                              *)
FixedAllowed(currentCount, limit) == currentCount < limit

(* A remaining that leaves out the request being admitted.                 *)
FixedRemainingBeforeIncrement(limit, currentCount, allowed) ==
    Max(0, limit - currentCount)

(* remaining = Math.max(0, limit - currentCount - (allowed ? 1 : 0))       *)
FixedRemaining(limit, currentCount, allowed) ==
    Max(0, limit - currentCount - (IF allowed THEN 1 ELSE 0))

(* checkFixedWindow: the result and the table it leaves.                   *)
checkFixedWindow(table, identifier, identifierType, limitConfig, t) ==
    LET windowStart == getWindowStart(t, limitConfig.windowSeconds)
        found == SelectWindow(table, identifier, identifierType, windowStart)
        created == IF found = {}
                   THEN InsertWindow(table, identifier, identifierType, windowStart, 0)
                   ELSE table
        currentCount == IF found = {} THEN 0 ELSE The(found).request_count
        allowed == FixedAllowed(currentCount, limitConfig.limit)
        remaining == FixedRemaining(limitConfig.limit, currentCount, allowed)
        resetAt == (windowStart + limitConfig.windowSeconds * MsPerSecond)
                       \div MsPerSecond
    IN  [result |-> [allowed |-> allowed, remaining |-> remaining,
                     resetAt |-> resetAt, limit |-> limitConfig.limit,
                     windowSeconds |-> limitConfig.windowSeconds],
         table |-> IF allowed
                   THEN IncrementWindow(created, identifier, identifierType, windowStart)
                   ELSE created,
         windowStart |-> windowStart,
         currentCount |-> currentCount]

(* The sliding window's numbers are kept as exact multiples of 1/windowMs: *)
(* overlapRatio = OverlapMs / windowMs and                                 *)
(* effectiveCount = EffectiveScaled / windowMs.                            *)
OverlapMs(windowMs, elapsedInCurrent) == Max(0, windowMs - elapsedInCurrent)

EffectiveScaled(previousCount, currentCount, windowMs, elapsedInCurrent) ==
    previousCount * OverlapMs(windowMs, elapsedInCurrent) + currentCount * windowMs

(* A sliding admission test that admits at an effective count of limit.   *)
SlidingAllowedInclusive(effectiveScaled, limit, windowMs) ==
    effectiveScaled <= limit * windowMs

(* allowed = effectiveCount < limitConfig.limit                            *)
SlidingAllowed(effectiveScaled, limit, windowMs) == effectiveScaled < limit * windowMs

(* checkSlidingWindow: the result and the table it leaves.                 *)
checkSlidingWindow(table, identifier, identifierType, limitConfig, t) ==
    LET windowSeconds == limitConfig.windowSeconds
        windowMs == windowSeconds * MsPerSecond
        currentWindowStart == getWindowStart(t, windowSeconds)
        previousWindowStart == getPreviousWindowStart(t, windowSeconds)
        currentRow == SelectWindow(table, identifier, identifierType, currentWindowStart)
        previousRow == SelectWindow(table, identifier, identifierType, previousWindowStart)
        currentCount == IF currentRow = {} THEN 0 ELSE The(currentRow).request_count
        previousCount == IF previousRow = {} THEN 0 ELSE The(previousRow).request_count
        elapsedInCurrent == t - currentWindowStart
        effectiveScaled == EffectiveScaled(previousCount, currentCount,
                                           windowMs, elapsedInCurrent)
        allowed == SlidingAllowed(effectiveScaled, limitConfig.limit, windowMs)
        remaining == Max(0, ((limitConfig.limit - (IF allowed THEN 1 ELSE 0)) * windowMs
                              - effectiveScaled) \div windowMs)
        resetAt == (t + windowMs) \div MsPerSecond
    IN  [result |-> [allowed |-> allowed, remaining |-> remaining,
                     resetAt |-> resetAt, limit |-> limitConfig.limit,
                     windowSeconds |-> limitConfig.windowSeconds],
         table |-> IF ~allowed THEN table
                   ELSE IF currentRow = {}
                   THEN InsertWindow(table, identifier, identifierType,
                                     currentWindowStart, 1)
                   ELSE IncrementWindow(table, identifier, identifierType,
                                        currentWindowStart),
         windowStart |-> currentWindowStart,
         currentCount |-> currentCount]

(* RateLimitRepository.check: the configured algorithm.                    *)
RateLimitCheck(table, identifier, identifierType, limitConfig, t) ==
    IF limitConfig.useSlidingWindow
    THEN checkSlidingWindow(table, identifier, identifierType, limitConfig, t)
    ELSE checkFixedWindow(table, identifier, identifierType, limitConfig, t)

(* cleanup: DELETE FROM rate_limits WHERE                                  *)
(* window_start < datetime('now', '-2 hours'); window_start is the ISO     *)
(* text, compared as text with the SQL text.                               *)
RateLimitCleanup(table, t) ==
    {r \in table : ~IsoLessThanSqlText(r.window_start, SqlNowMinus(t, 2 * 3600))}

----------------------------------------------------------------------------
(* Ban registry: BanRepository.                                            *)
(* A row of bans is [id, identifier, identifier_type, reason, banned_at,   *)
(* expires_at, created_by]: banned_at is DEFAULT datetime('now') (a        *)
(* second), expires_at is NULL or the ISO text of a millisecond.           *)
(* reason is [kind, n]: the text's fixed part and the number it reports.   *)
(* UNIQUE(identifier, identifier_type, expires_at); SQLite holds two NULLs *)
(* to be distinct.                                                         *)

nanoid(n) == "id" \o ToString(n)

(* expires_at IS NULL OR expires_at > datetime('now')                      *)
BanRowActive(r, t) ==
    \/ r.expires_at = Null
    \/ IsoGreaterThanSqlText(The(r.expires_at), SqlNow(t))

(* The rows that the query of isCurrentlyBanned may return: the WHERE      *)
(* clause, ORDER BY banned_at DESC, LIMIT 1.  Rows of one banned_at are in *)
(* no specified order, so each of them may be the one returned.            *)
isCurrentlyBanned(table, identifier, identifierType, t) ==
    LET matching == {r \in table : /\ r.identifier = identifier
                                   /\ r.identifier_type = identifierType
                                   /\ BanRowActive(r, t)}
    IN  {r \in matching : \A o \in matching : r.banned_at >= o.banned_at}

(* request.durationSeconds ? now + durationSeconds * 1000 : null           *)
BanExpiresAt(durationSeconds, t) ==
    IF durationSeconds # Null /\ The(durationSeconds) # 0
    THEN Some(t + The(durationSeconds) * MsPerSecond)
    ELSE Null

(* The INSERT of BanRepository.create fails on the UNIQUE constraint.      *)
BanInsertFails(table, identifier, identifierType, expiresAt) ==
    /\ expiresAt # Null
    /\ \E r \in table : /\ r.identifier = identifier
                        /\ r.identifier_type = identifierType
                        /\ r.expires_at = expiresAt

(* BanRepository.create, when the INSERT succeeds.                         *)
BanCreate(table, id, identifier, identifierType, reason, durationSeconds, createdBy, t) ==
    table \cup {[id |-> id, identifier |-> identifier,
                 identifier_type |-> identifierType, reason |-> reason,
                 banned_at |-> SqlNow(t),
                 expires_at |-> BanExpiresAt(durationSeconds, t),
                 created_by |-> createdBy]}

(* DELETE FROM bans WHERE id = ?                                           *)
BanRemove(table, id) == {r \in table : r.id # id}

(* DELETE FROM bans WHERE identifier = ? AND identifier_type = ?           *)
BanUnban(table, identifier, identifierType) ==
    {r \in table : ~(r.identifier = identifier /\ r.identifier_type = identifierType)}

(* DELETE FROM bans WHERE expires_at IS NOT NULL AND                       *)
(* expires_at < datetime('now')                                            *)
BanCleanup(table, t) ==
    {r \in table : ~(/\ r.expires_at # Null
                     /\ IsoLessThanSqlText(The(r.expires_at), SqlNow(t)))}

----------------------------------------------------------------------------
(* API-key registry: ApiKeyRepository and ApiKeyService.                   *)
(* A row of api_keys is [id, key_hash, rate_limit, window_seconds,         *)
(* is_active, expires_at, last_used_at]; expires_at is NULL or the instant *)
(* (ms) the request's ISO text names.  name, created_at and metadata play  *)
(* no part in any operation modelled and are left out.                     *)

(* A token that generateApiKey never returns.                              *)
UnknownToken == "rl_unknown"

(* SHA-256, hex: a text that is not the plaintext, one per plaintext.      *)
hashKey(key) == "sha256(" \o key \o ")"

(* generateApiKey: 'rl_' + nanoid(32), 32 random characters: a token that  *)
(* was never returned before.  Tokens are numbered in the order they are   *)
(* generated.                                                              *)
generateApiKey(issuedSoFar) == "rl_" \o ToString(Cardinality(issuedSoFar) + 1)

(* ApiKeyService.create rejects the request (throws).                      *)
ApiKeyCreateRejected(request, t) ==
    \/ request.rateLimit # Null /\ The(request.rateLimit) < 1
    \/ request.windowSeconds # Null /\ The(request.windowSeconds) < 1
    \/ request.expiresAt # Null /\ The(request.expiresAt) <= t

(* ApiKeyRepository.create: the INSERT.                                    *)
ApiKeyCreate(table, id, plainTextKey, request, config) ==
    table \cup {[id |-> id,
                 key_hash |-> hashKey(plainTextKey),
                 rate_limit |-> IF request.rateLimit # Null
                                THEN The(request.rateLimit)
                                ELSE config.apiKeyDefaultRateLimit,
                 window_seconds |-> IF request.windowSeconds # Null
                                    THEN The(request.windowSeconds)
                                    ELSE config.defaultWindowSeconds,
                 is_active |-> 1,
                 expires_at |-> request.expiresAt,
                 last_used_at |-> Null]}

(* SELECT * FROM api_keys WHERE key_hash = ? AND is_active = 1             *)
(* (key_hash is UNIQUE: at most one row).                                  *)
lookupByKey(table, plainTextKey) ==
    {r \in table : r.key_hash = hashKey(plainTextKey) /\ r.is_active = 1}

(* UPDATE api_keys SET last_used_at = datetime('now') WHERE id = ?         *)
TouchLastUsed(table, id, t) ==
    {IF r.id = id THEN [r EXCEPT !.last_used_at = Some(SqlNow(t))] ELSE r : r \in table}

getById(table, id) == {r \in table : r.id = id}

(* A rotation that leaves the fingerprint as it was.                       *)
ApiKeyRotateKeepingHash(table, id, newPlainTextKey) == table

(* UPDATE api_keys SET key_hash = ?, last_used_at = NULL WHERE id = ?      *)
ApiKeyRotate(table, id, newPlainTextKey) ==
    {IF r.id = id
     THEN [r EXCEPT !.key_hash = hashKey(newPlainTextKey), !.last_used_at = Null]
     ELSE r : r \in table}

(* UPDATE api_keys SET is_active = 0 WHERE id = ?                          *)
ApiKeyDeactivate(table, id) ==
    {IF r.id = id THEN [r EXCEPT !.is_active = 0] ELSE r : r \in table}

(* DELETE FROM api_keys WHERE id = ?                                       *)
ApiKeyDelete(table, id) == {r \in table : r.id # id}

(* isExpired: apiKey.expiresAt < new Date()                                *)
isExpired(apiKey, t) ==
    IF apiKey.expires_at = Null THEN FALSE ELSE The(apiKey.expires_at) < t

----------------------------------------------------------------------------
(* Request log: RequestLogRepository.                                      *)
(* A row of request_logs is [id, identifier, identifier_type, allowed,     *)
(* reason, country, timestamp]; timestamp is DEFAULT datetime('now').      *)
(* path, method, city and user_agent are copied from the request's         *)
(* metadata and never read back by the pipeline; they are left out.        *)

LogInsert(table, id, identifier, identifierType, allowed, reason, country, t) ==
    table \cup {[id |-> id, identifier |-> identifier,
                 identifier_type |-> identifierType,
                 allowed |-> IF allowed THEN 1 ELSE 0, reason |-> reason,
                 country |-> country, timestamp |-> SqlNow(t)]}

(* COUNT ... AND timestamp > datetime('now', '-' || ? || ' seconds')    *)
getCountInWindow(table, identifier, identifierType, windowSeconds, t) ==
    Cardinality({r \in table :
        /\ r.identifier = identifier
        /\ r.identifier_type = identifierType
        /\ SqlTextGreater(r.timestamp, SqlNowMinus(t, windowSeconds))})

(* The COUNT of getBaselineRate, whose result is count / periodMinutes. *)
getBaselineCount(table, identifier, identifierType, periodMinutes, t) ==
    getCountInWindow(table, identifier, identifierType,
                     periodMinutes * SecondsPerMinute, t)

----------------------------------------------------------------------------
(* Admission pipeline: RateLimiterService.                                 *)
(* A request is [ip, apiKey, country], "" for a field that is absent; the  *)
(* store is the record db = [api_keys, rate_limits, bans, request_logs,    *)
(* nextId].                                                                *)

(* createResponse; limit and retryAfter are optional.                      *)
createResponse(allowed, reason, remaining, resetAt, retryAfter) ==
    [allowed |-> allowed, reason |-> reason, remaining |-> remaining,
     resetAt |-> resetAt, limit |-> Null, retryAfter |-> retryAfter]

(* const identifier = request.apiKey || request.ip                         *)
RequestIdentifier(request) ==
    IF request.apiKey # "" THEN request.apiKey ELSE request.ip

RequestIdentifierType(request) ==
    IF request.apiKey # "" THEN "api_key" ELSE "ip"

(* A logRequest that writes a row for every decision.                      *)
logRequestAlways(db, config, request, identifier, identifierType, allowed, reason, t) ==
    [db EXCEPT !.request_logs =
                   LogInsert(@, nanoid(db.nextId), identifier, identifierType,
                             allowed, reason, request.country, t),
               !.nextId = @ + 1]

(* logRequest: a row only if configured to log all requests, or if denied. *)
logRequest(db, config, request, identifier, identifierType, allowed, reason, t) ==
    IF config.logAllRequests \/ ~allowed
    THEN [db EXCEPT !.request_logs =
                        LogInsert(@, nanoid(db.nextId), identifier, identifierType,
                                  allowed, reason, request.country, t),
                    !.nextId = @ + 1]
    ELSE db

(* A baseline rule that also fires when the two rates are equal.           *)
BaselineSpikeAtEqualRates(currentBurstCount, baselineCount, config) ==
    /\ baselineCount > 0
    /\ currentBurstCount * SecondsPerMinute * BaselinePeriodMinutes
           >= baselineCount * config.burstMultiplier * config.burstWindowSeconds

(* baselineRate > 0 && currentRate > baselineRate * burstMultiplier, with  *)
(* baselineRate = baselineCount / periodMinutes and                        *)
(* currentRate = currentBurstCount / (burstWindowSeconds / 60), both sides *)
(* multiplied by periodMinutes * burstWindowSeconds.                       *)
BaselineSpike(currentBurstCount, baselineCount, config) ==
    /\ baselineCount > 0
    /\ currentBurstCount * SecondsPerMinute * BaselinePeriodMinutes
           > baselineCount * config.burstMultiplier * config.burstWindowSeconds

(* A store operation of check() that fails (the statement throws), or     *)
(* none: the ban lookup, the key lookup, the counter read and write, the   *)
(* log counts of detectAbuse, the ban insert, the log insert.              *)
NoFault == "none"
Faults == {"ban_lookup", "key_lookup", "counter", "log_count", "ban_insert",
           "log_insert"}

(* A detector that reports abuse without creating the ban.                 *)
detectAbuseWithoutBan(db, config, identifier, identifierType, fault, t) ==
    LET currentBurstCount ==
            getCountInWindow(db.request_logs, identifier, identifierType,
                             config.burstWindowSeconds, t)
        baselineCount ==
            getBaselineCount(db.request_logs, identifier, identifierType,
                             BaselinePeriodMinutes, t)
    IN  [fired |-> \/ currentBurstCount >= config.burstThreshold
                   \/ BaselineSpike(currentBurstCount, baselineCount, config),
         threw |-> FALSE, db |-> db]

(* detectAbuse: whether it fired, the store it leaves, and whether one of  *)
(* its statements threw (the promise is rejected): a log count, or the     *)
(* INSERT of createAutoBan, which also fails on the UNIQUE constraint.     *)
detectAbuse(db, config, identifier, identifierType, fault, t) ==
    LET currentBurstCount ==
            getCountInWindow(db.request_logs, identifier, identifierType,
                             config.burstWindowSeconds, t)
        baselineCount ==
            getBaselineCount(db.request_logs, identifier, identifierType,
                             BaselinePeriodMinutes, t)
        absolute == currentBurstCount >= config.burstThreshold
        fires == absolute \/ BaselineSpike(currentBurstCount, baselineCount, config)
        reason == IF absolute
                  THEN [kind |-> "Burst detection", n |-> currentBurstCount]
                  ELSE [kind |-> "Baseline spike", n |-> currentBurstCount]
        duration == Some(config.defaultBanDurationSeconds)
        rejected == BanInsertFails(db.bans, identifier, identifierType,
                                   BanExpiresAt(duration, t))
    IN  IF fault = "log_count" THEN [fired |-> FALSE, threw |-> TRUE, db |-> db]
        ELSE IF ~fires THEN [fired |-> FALSE, threw |-> FALSE, db |-> db]
        ELSE IF rejected \/ fault = "ban_insert"
        THEN [fired |-> FALSE, threw |-> TRUE, db |-> db]
        ELSE [fired |-> TRUE, threw |-> FALSE,
              db |-> [db EXCEPT !.bans = BanCreate(@, nanoid(db.nextId), identifier,
                                                   identifierType, reason, duration,
                                                   "system", t),
                                !.nextId = @ + 1]]

(* A config that ignores the key's own limit and window.                   *)
KeyRateLimitConfigIgnoringKey(apiKey, config) ==
    [limit |-> config.defaultLimit, windowSeconds |-> config.defaultWindowSeconds,
     useSlidingWindow |-> config.useSlidingWindow]

(* The rate-limit config check() applies: the key's own, or the default.   *)
KeyRateLimitConfig(apiKey, config) ==
    [limit |-> apiKey.rate_limit, windowSeconds |-> apiKey.window_seconds,
     useSlidingWindow |-> config.useSlidingWindow]

DefaultRateLimitConfig(config) ==
    [limit |-> config.defaultLimit, windowSeconds |-> config.defaultWindowSeconds,
     useSlidingWindow |-> config.useSlidingWindow]

(* The geo-blocking test of check(): Array.includes on the configured list.*)
GeoBlocked(config, request) ==
    /\ config.geoBlockingEnabled
    /\ request.country # ""
    /\ request.country \in config.blockedCountries

(* A finished call: the response and the step that decided it.             *)
Finished(db, resp, step, info) ==
    [db |-> db, done |-> TRUE, resp |-> resp, step |-> step, info |-> info]

NoCounter == [reached |-> FALSE]

(* A catch block that denies the request.                                  *)
FailClosed(db, info) ==
    Finished(db, createResponse(FALSE, "banned", 0, 0, Null), "fail_open", info)

(* The catch block of check(): fail open.                                  *)
FailOpen(db, info) ==
    Finished(db, createResponse(TRUE, "ok", 0, 0, Null), "fail_open", info)

(* A return that counts the request under the default limit when the      *)
(* decision was taken before the rate-limit step.                          *)
LogAndReturnCounted(db, config, request, fault, allowed, reason, resp, step, info, t) ==
    LET counted == [db EXCEPT !.rate_limits =
                        RateLimitCheck(@, RequestIdentifier(request),
                                       RequestIdentifierType(request),
                                       DefaultRateLimitConfig(config), t).table]
    IN  Finished(logRequest(IF info.reached THEN db ELSE counted, config, request,
                            RequestIdentifier(request),
                            RequestIdentifierType(request), allowed, reason, t),
                 resp, step, info)

(* logRequest followed by the return of resp, or the catch block if the    *)
(* INSERT of logRequest throws.                                            *)
LogAndReturn(db, config, request, fault, allowed, reason, resp, step, info, t) ==
    IF fault = "log_insert" /\ (config.logAllRequests \/ ~allowed)
    THEN FailOpen(db, info)
    ELSE Finished(logRequest(db, config, request, RequestIdentifier(request),
                             RequestIdentifierType(request), allowed, reason, t),
                  resp, step, info)

(* check(), from its start to its first await or to its return.  ban is    *)
(* what isCurrentlyBanned returned: Null or Some(row); fault is the store  *)
(* operation that throws if the call comes to it.                          *)
CheckSync(db, config, request, ban, fault, t) ==
    LET identifier == RequestIdentifier(request)
        identifierType == RequestIdentifierType(request)
        key == lookupByKey(db.api_keys, request.apiKey)
        dbKey == IF request.apiKey # "" /\ key # Null
                 THEN [db EXCEPT !.api_keys = TouchLastUsed(@, The(key).id, t)]
                 ELSE db
        rateLimitConfig == IF request.apiKey # ""
                           THEN KeyRateLimitConfig(The(key), config)
                           ELSE DefaultRateLimitConfig(config)
        rl == RateLimitCheck(dbKey.rate_limits, identifier, identifierType,
                             rateLimitConfig, t)
        dbRl == [dbKey EXCEPT !.rate_limits = rl.table]
        counter == [reached |-> TRUE, result |-> rl.result,
                    windowStart |-> rl.windowStart,
                    currentCount |-> rl.currentCount,
                    useSlidingWindow |-> rateLimitConfig.useSlidingWindow]
        abuse == detectAbuse(dbRl, config, identifier, identifierType, fault, t)
    IN  IF identifier = ""
        THEN Finished(db, createResponse(FALSE, "invalid_key", 0, 0, Null),
                      "input", NoCounter)
        ELSE IF fault = "ban_lookup"
        THEN FailOpen(db, NoCounter)
        ELSE IF ban # Null
        THEN LogAndReturn(db, config, request, fault, FALSE, "banned",
                          createResponse(FALSE, "banned", 0, 0,
                              IF The(ban).expires_at # Null
                              THEN Some(CeilDiv(The(The(ban).expires_at) - t, MsPerSecond))
                              ELSE Null),
                          "ban", NoCounter, t)
        ELSE IF GeoBlocked(config, request)
        THEN LogAndReturn(db, config, request, fault, FALSE, "geo_blocked",
                          createResponse(FALSE, "geo_blocked", 0, 0, Null),
                          "geo", NoCounter, t)
        ELSE IF request.apiKey # "" /\ fault = "key_lookup"
        THEN FailOpen(db, NoCounter)
        ELSE IF request.apiKey # "" /\ key = Null
        THEN LogAndReturn(db, config, request, fault, FALSE, "invalid_key",
                          createResponse(FALSE, "invalid_key", 0, 0, Null),
                          "key", NoCounter, t)
        ELSE IF request.apiKey # "" /\ isExpired(The(key), t)
        THEN LogAndReturn(dbKey, config, request, fault, FALSE, "expired_key",
                          createResponse(FALSE, "expired_key", 0, 0, Null),
                          "key", NoCounter, t)
        ELSE IF fault = "counter"
        THEN FailOpen(dbKey, NoCounter)
        ELSE IF ~rl.result.allowed
        THEN LogAndReturn(dbRl, config, request, fault, FALSE, "rate_limited",
                          [allowed |-> FALSE, reason |-> "rate_limited",
                           remaining |-> rl.result.remaining,
                           resetAt |-> rl.result.resetAt,
                           limit |-> Some(rl.result.limit),
                           retryAfter |-> Some(rl.result.resetAt - (t \div MsPerSecond))],
                          "rate_limit", counter, t)
        ELSE [db |-> abuse.db, done |-> FALSE, info |-> counter,
              abuseDetected |-> abuse.fired, threw |-> abuse.threw]

(* A continuation that takes a rejected detectAbuse for one that did not   *)
(* fire.                                                                   *)
CheckAfterAwaitRejectedAsNotFired(db, config, call, t) ==
    LogAndReturn(db, config, call.request, call.fault,
                 ~call.abuseDetected, IF call.abuseDetected THEN "banned" ELSE "ok",
                 IF call.abuseDetected
                 THEN createResponse(FALSE, "banned", 0, call.info.result.resetAt, Null)
                 ELSE [allowed |-> TRUE, reason |-> "ok",
                       remaining |-> call.info.result.remaining,
                       resetAt |-> call.info.result.resetAt,
                       limit |-> Some(call.info.result.limit), retryAfter |-> Null],
                 IF call.abuseDetected THEN "abuse" ELSE "rate_limit", call.info, t)

(* check(), from the await of detectAbuse to its return.  call is what the *)
(* handler kept across the await.                                          *)
CheckAfterAwait(db, config, call, t) ==
    LET request == call.request
        result == call.info.result
    IN  IF call.threw
        THEN FailOpen(db, call.info)
        ELSE IF call.abuseDetected
        THEN LogAndReturn(db, config, request, call.fault, FALSE, "banned",
                          createResponse(FALSE, "banned", 0, result.resetAt, Null),
                          "abuse", call.info, t)
        ELSE LogAndReturn(db, config, request, call.fault, TRUE, "ok",
                          [allowed |-> TRUE, reason |-> "ok",
                           remaining |-> result.remaining, resetAt |-> result.resetAt,
                           limit |-> Some(result.limit), retryAfter |-> Null],
                          "rate_limit", call.info, t)

----------------------------------------------------------------------------
(* The state machine.                                                      *)

(* config, as config/env.ts builds it when no variable is set.             *)
DefaultConfig ==
    [defaultLimit |-> 100, defaultWindowSeconds |-> 60, useSlidingWindow |-> TRUE,
     burstThreshold |-> 50, burstWindowSeconds |-> 10, burstMultiplier |-> 5,
     defaultBanDurationSeconds |-> 3600,
     geoBlockingEnabled |-> FALSE, blockedCountries |-> {},
     logAllRequests |-> FALSE, apiKeyDefaultRateLimit |-> 1000]

(* The clock starts at 1970-01-02T00:00:00.000Z.                           *)
StartInstant == SecondsPerDay * MsPerSecond

IPs == {"203.0.113.7"}

DB == [api_keys |-> api_keys, rate_limits |-> rate_limits, bans |-> bans,
       request_logs |-> request_logs, nextId |-> nextId]

StoreBecomes(db) ==
    /\ api_keys' = db.api_keys
    /\ rate_limits' = db.rate_limits
    /\ bans' = db.bans
    /\ request_logs' = db.request_logs
    /\ nextId' = db.nextId

StoreUnchanged == UNCHANGED <<api_keys, rate_limits, bans, request_logs, nextId>>

(* What a completed check() leaves in lastOp: n is the call's number, at   *)
(* the instant it started, keys and banned the tables api_keys and bans as *)
(* it found them.                                                          *)
CheckDone(n, request, fault, at, keys, banned, out) ==
    [op |-> "check", n |-> n, request |-> request, fault |-> fault,
     keys |-> keys, banned |-> banned,
     identifier |-> RequestIdentifier(request),
     identifierType |-> RequestIdentifierType(request),
     at |-> at, resp |-> out.resp, step |-> out.step, info |-> out.info]

(* What hist keeps of a call that reached the counter store; keyId is the  *)
(* id of the API key its token looked up, if it carried one.               *)
HistEntry(n, request, keys, info, t) ==
    [n |-> n, identifier |-> RequestIdentifier(request),
     keyId |-> {k.id : k \in lookupByKey(keys, request.apiKey)},
     identifier_type |-> RequestIdentifierType(request),
     at |-> t, allowed |-> info.result.allowed, windowStart |-> info.windowStart]

(* A ban lookup that also consults the bans of the request's address.      *)
BanLookupAddressToo(request, t) ==
    LET rows == isCurrentlyBanned(bans, RequestIdentifier(request),
                                  RequestIdentifierType(request), t)
                    \cup isCurrentlyBanned(bans, request.ip, "ip", t)
    IN  IF rows = {} THEN {Null} ELSE {Some(r) : r \in rows}

(* What isCurrentlyBanned returns to check(): null, or one of the rows the *)
(* query may return.                                                       *)
BanLookup(request, t) ==
    LET rows == isCurrentlyBanned(bans, RequestIdentifier(request),
                                  RequestIdentifierType(request), t)
    IN  IF rows = {} THEN {Null} ELSE {Some(r) : r \in rows}

(* The clock advances by step milliseconds.                                *)
Tick(step) ==
    /\ now' = now + step
    /\ ticks' = ticks + 1
    /\ lastOp' = [op |-> "tick"]
    /\ StoreUnchanged
    /\ UNCHANGED <<cfg, intelVars, geoVars, issued, calls, nCalls, nAdmin, hist>>

(* A request handler calls check(request): it runs to the await of         *)
(* detectAbuse, or to its return.  calls holds what each call in flight    *)
(* kept across its await.  fault is the store operation that fails during  *)
(* this call, if any.                                                      *)
CheckBeginWith(request, fault) ==
    /\ \E ban \in BanLookup(request, now) :
         LET out == CheckSync(DB, cfg, request, ban, fault, now)
             n == nCalls + 1
         IN  /\ StoreBecomes(out.db)
             /\ hist' = IF out.info.reached
                        THEN Append(hist, HistEntry(n, request, api_keys, out.info, now))
                        ELSE hist
             /\ IF out.done
                THEN /\ calls' = calls
                     /\ lastOp' = CheckDone(n, request, fault, now, api_keys, bans, out)
                ELSE /\ calls' = calls \cup
                                    {[n |-> n, request |-> request, fault |-> fault,
                                      at |-> now, keys |-> api_keys,
                                      banned |-> bans, info |-> out.info,
                                      abuseDetected |-> out.abuseDetected,
                                      threw |-> out.threw]}
                     /\ lastOp' = [op |-> "await", n |-> n]
    /\ nCalls' = nCalls + 1
    /\ UNCHANGED <<now, ticks, cfg, intelVars, geoVars, issued, nAdmin>>

(* A call during which no store operation fails.                           *)
CheckBegin(request) == CheckBeginWith(request, NoFault)

(* The continuation of a call after its await runs to its return.          *)
CheckResume(call) ==
    /\ call \in calls
    /\ LET out == CheckAfterAwait(DB, cfg, call, now)
       IN  /\ StoreBecomes(out.db)
           /\ lastOp' = CheckDone(call.n, call.request, call.fault, call.at,
                                  call.keys, call.banned, out)
    /\ calls' = calls \ {call}
    /\ UNCHANGED <<now, ticks, cfg, intelVars, geoVars, issued, nCalls, nAdmin, hist>>

(* POST /v1/bans: BanRepository.create(body, 'admin').  A failed INSERT    *)
(* (UNIQUE constraint) throws and leaves the store as it was.              *)
BanAdminCreate(identifier, identifierType, durationSeconds) ==
    /\ IF BanInsertFails(bans, identifier, identifierType,
                         BanExpiresAt(durationSeconds, now))
       THEN /\ lastOp' = [op |-> "ban_create", ok |-> FALSE]
            /\ UNCHANGED <<bans, nextId>>
       ELSE /\ bans' = BanCreate(bans, nanoid(nextId), identifier, identifierType,
                                 [kind |-> "manual", n |-> 0], durationSeconds,
                                 "admin", now)
            /\ nextId' = nextId + 1
            /\ lastOp' = [op |-> "ban_create", ok |-> TRUE, id |-> nanoid(nextId)]
    /\ nAdmin' = nAdmin + 1
    /\ UNCHANGED <<now, ticks, cfg, intelVars, geoVars, api_keys, rate_limits, request_logs, issued,
                   calls, nCalls, hist>>

(* DELETE /v1/bans/:id: BanRepository.remove(id).                          *)
BanAdminRemove(id) ==
    /\ bans' = BanRemove(bans, id)
    /\ lastOp' = [op |-> "ban_remove", ok |-> (\E r \in bans : r.id = id), id |-> id]
    /\ nAdmin' = nAdmin + 1
    /\ UNCHANGED <<now, ticks, cfg, intelVars, geoVars, api_keys, rate_limits, request_logs, issued,
                   nextId, calls, nCalls, hist>>

(* ApiKeyService.create(request): validation, then ApiKeyRepository.create *)
(* with a newly generated plaintext key, which is returned.                *)
KeyCreate(request) ==
    /\ IF ApiKeyCreateRejected(request, now)
       THEN /\ lastOp' = [op |-> "key_create", ok |-> FALSE]
            /\ UNCHANGED <<api_keys, issued, nextId>>
       ELSE LET plainTextKey == generateApiKey(issued)
            IN /\ api_keys' = ApiKeyCreate(api_keys, nanoid(nextId), plainTextKey,
                                           request, cfg)
               /\ issued' = issued \cup {plainTextKey}
               /\ nextId' = nextId + 1
               /\ lastOp' = [op |-> "key_create", ok |-> TRUE, id |-> nanoid(nextId),
                             plainTextKey |-> plainTextKey]
    /\ nAdmin' = nAdmin + 1
    /\ UNCHANGED <<now, ticks, cfg, intelVars, geoVars, rate_limits, bans, request_logs,
                   calls, nCalls, hist>>

(* ApiKeyService.rotate(id): ApiKeyRepository.rotate.  prior is the        *)
(* plaintext that hashed to the row's fingerprint before the call.         *)
KeyRotate(id) ==
    /\ IF getById(api_keys, id) = {}
       THEN /\ lastOp' = [op |-> "key_rotate", ok |-> FALSE]
            /\ UNCHANGED <<api_keys, issued>>
       ELSE LET newPlainTextKey == generateApiKey(issued)
            IN /\ api_keys' = ApiKeyRotate(api_keys, id, newPlainTextKey)
               /\ issued' = issued \cup {newPlainTextKey}
               /\ lastOp' = [op |-> "key_rotate", ok |-> TRUE, id |-> id,
                             prior |-> {p \in issued :
                                          hashKey(p) = The(getById(api_keys, id)).key_hash},
                             wasActive |-> The(getById(api_keys, id)).is_active,
                             apiKey |-> getById(api_keys', id),
                             plainTextKey |-> newPlainTextKey]
    /\ nAdmin' = nAdmin + 1
    /\ UNCHANGED <<now, ticks, cfg, intelVars, geoVars, rate_limits, bans, request_logs, nextId,
                   calls, nCalls, hist>>

(* ApiKeyService.deactivate(id).                                           *)
KeyDeactivate(id) ==
    /\ api_keys' = ApiKeyDeactivate(api_keys, id)
    /\ lastOp' = [op |-> "key_deactivate", ok |-> (getById(api_keys, id) # {}),
                  id |-> id]
    /\ nAdmin' = nAdmin + 1
    /\ UNCHANGED <<now, ticks, cfg, intelVars, geoVars, rate_limits, bans, request_logs, issued, nextId,
                   calls, nCalls, hist>>

(* String.prototype.toUpperCase, on the country codes used here.           *)
toUpperCase(code) ==
    CASE code = "cn" -> "CN"
      [] code = "us" -> "US"
      [] OTHER -> code

(* SettingsRepository.isGeoBlockingEnabled.                                *)
isGeoBlockingEnabled(table) ==
    \E r \in table : r.key = "geo_blocking_enabled" /\ r.value = "true"

(* SettingsRepository.setGeoBlockingEnabled: INSERT ... ON CONFLICT(key)   *)
(* DO UPDATE.                                                              *)
setGeoBlockingEnabled(table, enabled) ==
    {r \in table : r.key # "geo_blocking_enabled"}
        \cup {[key |-> "geo_blocking_enabled",
               value |-> IF enabled THEN "true" ELSE "false"]}

(* SettingsRepository.isCountryBlocked.                                    *)
isCountryBlocked(table, countryCode) ==
    \E r \in table : r.country_code = toUpperCase(countryCode)

(* SettingsRepository.blockCountry: INSERT OR REPLACE.                     *)
blockCountry(table, countryCode) ==
    {r \in table : r.country_code # toUpperCase(countryCode)}
        \cup {[country_code |-> toUpperCase(countryCode)]}

(* SettingsRepository.unblockCountry.                                      *)
unblockCountry(table, countryCode) ==
    {r \in table : r.country_code # toUpperCase(countryCode)}

(* SettingsRepository.setBlockedCountries: DELETE all rows, then one       *)
(* INSERT per given code.                                                  *)
setBlockedCountries(table, codes) ==
    {[country_code |-> toUpperCase(c)] : c \in codes}

(* PUT /settings/geo-blocking.                                             *)
SettingsSetEnabled(enabled) ==
    /\ settings' = setGeoBlockingEnabled(settings, enabled)
    /\ lastOp' = [op |-> "geo_set_enabled", enabled |-> enabled]
    /\ nAdmin' = nAdmin + 1
    /\ StoreUnchanged
    /\ UNCHANGED <<now, ticks, cfg, intelVars, blocked_countries, issued, calls, nCalls, hist>>

(* POST /settings/geo-blocking/countries: a code that is empty or not two  *)
(* characters long is answered 400.                                        *)
SettingsBlockCountry(countryCode) ==
    /\ IF countryCode = "" \/ Len(countryCode) # 2
       THEN /\ lastOp' = [op |-> "geo_block", ok |-> FALSE]
            /\ UNCHANGED blocked_countries
       ELSE /\ blocked_countries' = blockCountry(blocked_countries, countryCode)
            /\ lastOp' = [op |-> "geo_block", ok |-> TRUE,
                          countryCode |-> toUpperCase(countryCode)]
    /\ nAdmin' = nAdmin + 1
    /\ StoreUnchanged
    /\ UNCHANGED <<now, ticks, cfg, intelVars, settings, issued, calls, nCalls, hist>>

(* DELETE /settings/geo-blocking/countries/:code.                          *)
SettingsUnblockCountry(code) ==
    /\ blocked_countries' = unblockCountry(blocked_countries, code)
    /\ lastOp' = [op |-> "geo_unblock",
                  ok |-> isCountryBlocked(blocked_countries, code)]
    /\ nAdmin' = nAdmin + 1
    /\ StoreUnchanged
    /\ UNCHANGED <<now, ticks, cfg, intelVars, settings, issued, calls, nCalls, hist>>

(* PUT /settings/geo-blocking/countries.                                   *)
SettingsReplaceCountries(codes) ==
    /\ blocked_countries' = setBlockedCountries(blocked_countries, codes)
    /\ lastOp' = [op |-> "geo_replace", count |-> Cardinality(codes)]
    /\ nAdmin' = nAdmin + 1
    /\ StoreUnchanged
    /\ UNCHANGED <<now, ticks, cfg, intelVars, settings, issued, calls, nCalls, hist>>

----------------------------------------------------------------------------
(* IP intelligence: ip-intel/repository.ts and the engine.                 *)
(* An address is its four octets <<a, b, c, d>>, an ASN block identifier   *)
(* <<asn>>, a CIDR <<a, b, c, d, bits>> (the text 'a.b.c.d/bits').  A      *)
(* detection is [type, confidence, reason, source, asn].                   *)

(* A registry that lists the providers by descending priority number.     *)
getProvidersDescending(credentials) ==
    LET priority == [name \in {"ipinfo", "abuseipdb", "ip-api"} |->
                        IF name = "ipinfo" THEN 5
                        ELSE IF name = "abuseipdb" THEN 8 ELSE 10]
        enabled == {name \in DOMAIN priority :
                       name = "ip-api" \/ name \in credentials}
    IN  CHOOSE list \in [1 .. Cardinality(enabled) -> enabled] :
            \A i, j \in DOMAIN list : i < j => priority[list[i]] > priority[list[j]]

(* getProviders: of ipinfo (priority 5), abuseipdb (8) and ip-api (10),    *)
(* those that are enabled, sorted by ascending priority.  ipinfo and       *)
(* abuseipdb are enabled if their credential is set (credentials holds     *)
(* their names), ip-api always.                                            *)
getProviders(credentials) ==
    LET priority == [name \in {"ipinfo", "abuseipdb", "ip-api"} |->
                        IF name = "ipinfo" THEN 5
                        ELSE IF name = "abuseipdb" THEN 8 ELSE 10]
        enabled == {name \in DOMAIN priority :
                       name = "ip-api" \/ name \in credentials}
    IN  CHOOSE list \in [1 .. Cardinality(enabled) -> enabled] :
            \A i, j \in DOMAIN list : i < j => priority[list[i]] < priority[list[j]]

(* ipIntelConfig when no variable is set; providers is the list            *)
(* getProviders() returns, in priority order.                              *)
DefaultIntelConfig ==
    [ipTTLSeconds |-> 3600, providerTTLSeconds |-> 21600,
     confidenceThreshold |-> 70, torDetectionEnabled |-> TRUE,
     asnHeuristicsEnabled |-> TRUE, providers |-> getProviders({})]

(* Rows of the seed data of asn_cache: a hosting ASN, a hosting VPN ASN, a *)
(* VPN ASN, and one flagged neither; they expire 365 days after startup.   *)
AsnSeeds(t) ==
    {[asn |-> 16509, is_hosting |-> 1, is_vpn |-> 0,
      expires_at |-> SqlNow(t) + 365 * SecondsPerDay],
     [asn |-> 9009, is_hosting |-> 1, is_vpn |-> 1,
      expires_at |-> SqlNow(t) + 365 * SecondsPerDay],
     [asn |-> 136787, is_hosting |-> 0, is_vpn |-> 1,
      expires_at |-> SqlNow(t) + 365 * SecondsPerDay],
     [asn |-> 16591, is_hosting |-> 0, is_vpn |-> 0,
      expires_at |-> SqlNow(t) + 365 * SecondsPerDay]}

(* A read of ip_reputation that takes the row of the address at any age.  *)
getIPReputationAtAnyAge(table, ip, t) == {r \in table : r.ip = ip}

(* getIPReputation: the row of the address, if it has not expired.         *)
getIPReputation(table, ip, t) ==
    {r \in table : r.ip = ip /\ SqlTextGreater(r.expires_at, SqlNow(t))}

(* getASNCache.                                                            *)
getASNCache(table, asn, t) ==
    {r \in table : r.asn = asn /\ SqlTextGreater(r.expires_at, SqlNow(t))}

(* repository.isTorExitNode.                                               *)
isTorExitNode(table, ip) == \E r \in table : r.ip = ip /\ r.is_exit = 1

(* A sync that replaces the table by the list.                             *)
syncTorNodesReplacing(table, ips, t) ==
    {[ip |-> ip, is_exit |-> 1, last_seen_at |-> SqlNow(t)] : ip \in ips}

(* syncTorNodes: one upsert per address of the list.                       *)
syncTorNodes(table, ips, t) ==
    {r \in table : r.ip \notin ips}
        \cup {[ip |-> ip, is_exit |-> 1, last_seen_at |-> SqlNow(t)] : ip \in ips}

(* getManualBlock: the row of the identifier, if active.                   *)
getManualBlock(table, identifier, type, t) ==
    {r \in table : /\ r.identifier_type = type
                   /\ r.identifier = identifier
                   /\ (r.expires_at = Null
                       \/ SqlTextGreater(The(r.expires_at), SqlNow(t)))}

(* getActiveRangeBlocks.                                                   *)
getActiveRangeBlocks(table, t) ==
    {r \in table : /\ r.identifier_type = "range"
                   /\ (r.expires_at = Null
                       \/ SqlTextGreater(The(r.expires_at), SqlNow(t)))}

(* addManualBlock: INSERT ... ON CONFLICT(identifier, identifier_type) DO  *)
(* UPDATE; expires_at is datetime('now', '+n seconds') or NULL.            *)
addManualBlock(table, identifier, type, durationSeconds, t) ==
    {r \in table : ~(r.identifier_type = type /\ r.identifier = identifier)}
        \cup {[identifier |-> identifier, identifier_type |-> type,
               expires_at |-> IF durationSeconds # Null /\ The(durationSeconds) # 0
                              THEN Some(SqlNow(t) + The(durationSeconds))
                              ELSE Null]}

(* removeManualBlock.                                                      *)
removeManualBlock(table, identifier, type) ==
    {r \in table : ~(r.identifier_type = type /\ r.identifier = identifier)}

(* incrementStat: the counter of the day and stat type, created at 1.      *)
incrementStat(table, statType, t) ==
    LET date == DayOfSql(SqlNow(t))
        old == {r \in table : r.date = date /\ r.stat_type = statType}
    IN  (table \ old)
            \cup {[date |-> date, stat_type |-> statType,
                   count |-> IF old = {} THEN 1 ELSE The(old).count + 1]}

(* ipToLong(ip), as its two 16-bit halves.                                 *)
ipToLong(ip) == <<ip[1] * 256 + ip[2], ip[3] * 256 + ip[4]>>

(* a & b for two 16-bit numbers.                                           *)
RECURSIVE BitAnd(_, _)
BitAnd(a, b) ==
    IF a = 0 \/ b = 0 THEN 0
    ELSE (a % 2) * (b % 2) + 2 * BitAnd(a \div 2, b \div 2)

(* An isIpInCidr whose mask is the shift alone, with no case for bits = 0: *)
(* a shift by 32 is a shift by 0.                                          *)
isIpInCidrShiftOnly(ip, cidr) ==
    IF Len(cidr) = 4 THEN ip = cidr
    ELSE LET bits == cidr[5]
             range == SubSeq(cidr, 1, 4)
             shift == (32 - bits) % 32
             mask == IF shift >= 16
                     THEN <<(65535 * 2 ^ (shift - 16)) % 65536, 0>>
                     ELSE <<65535, (65535 * 2 ^ shift) % 65536>>
         IN  /\ bits >= 0 /\ bits <= 32
             /\ \A i \in 1 .. 4 : ip[i] \in 0 .. 255 /\ range[i] \in 0 .. 255
             /\ \A h \in 1 .. 2 :
                   BitAnd(ipToLong(ip)[h], mask[h]) = BitAnd(ipToLong(range)[h], mask[h])

(* isIpInCidr: without '/bits' the texts are compared; bits outside 0..32  *)
(* or an octet outside 0..255 (ipToLong throws) give false; otherwise      *)
(* (ipLong & mask) === (rangeLong & mask) with                             *)
(* mask = bits === 0 ? 0 : (0xFFFFFFFF << (32 - bits)) >>> 0.  << takes    *)
(* its count modulo 32 and keeps the low 32 bits; the numbers are kept as  *)
(* their two 16-bit halves.                                                *)
isIpInCidr(ip, cidr) ==
    IF Len(cidr) = 4 THEN ip = cidr
    ELSE LET bits == cidr[5]
             range == SubSeq(cidr, 1, 4)
             shift == (32 - bits) % 32
             mask == IF bits = 0 THEN <<0, 0>>
                     ELSE IF shift >= 16
                     THEN <<(65535 * 2 ^ (shift - 16)) % 65536, 0>>
                     ELSE <<65535, (65535 * 2 ^ shift) % 65536>>
         IN  /\ bits >= 0 /\ bits <= 32
             /\ \A i \in 1 .. 4 : ip[i] \in 0 .. 255 /\ range[i] \in 0 .. 255
             /\ \A h \in 1 .. 2 :
                   BitAnd(ipToLong(ip)[h], mask[h]) = BitAnd(ipToLong(range)[h], mask[h])

Detection(type, confidence, reason, source, asn) ==
    [type |-> type, confidence |-> confidence, reason |-> reason,
     source |-> source, asn |-> asn]

(* A layer 2 that looks at blocks of the address only.                     *)
checkManualBlocksAddressOnly(blocks, ip, t) ==
    IF getManualBlock(blocks, ip, "ip", t) # {}
    THEN Some(Detection("proxy", 100, "Manually blocked", "manual", Null))
    ELSE Null

(* Layer 2, checkManualBlocks: a block of the address, then the range      *)
(* blocks.                                                                 *)
checkManualBlocks(blocks, ip, t) ==
    IF getManualBlock(blocks, ip, "ip", t) # {}
    THEN Some(Detection("proxy", 100, "Manually blocked", "manual", Null))
    ELSE IF \E block \in getActiveRangeBlocks(blocks, t) :
                isIpInCidr(ip, block.identifier)
    THEN Some(Detection("proxy", 100, "IP matches blocked range", "manual", Null))
    ELSE Null

(* Layer 3, checkTorExitNode.                                              *)
checkTorExitNode(tor, ip) ==
    IF isTorExitNode(tor, ip)
    THEN Some(Detection("tor", 100, "IP is a known Tor exit node", "tor_list", Null))
    ELSE Null

(* lookupASN, once the fetch has answered: response is Null (the fetch     *)
(* failed or named no ASN) or Some(asn); the cached row of the ASN, or a   *)
(* record with no flag set.                                                *)
lookupASN(cache, response, t) ==
    IF response = Null THEN Null
    ELSE IF getASNCache(cache, The(response), t) # {}
    THEN {[asn |-> r.asn, is_hosting |-> r.is_hosting, is_vpn |-> r.is_vpn] :
             r \in getASNCache(cache, The(response), t)}
    ELSE Some([asn |-> The(response), is_hosting |-> 0, is_vpn |-> 0])

(* Layer 4, checkASNHeuristics, after lookupASN.                           *)
checkASNHeuristics(blocks, asnInfo, t) ==
    IF asnInfo = Null THEN Null
    ELSE LET info == The(asnInfo)
         IN  IF getManualBlock(blocks, <<info.asn>>, "asn", t) # {}
             THEN Some(Detection("hosting", 100, "ASN manually blocked", "manual",
                                 Some(info.asn)))
             ELSE IF info.is_hosting # 0
             THEN Some(Detection(IF info.is_vpn # 0 THEN "vpn" ELSE "hosting", 85,
                                 "known provider", "heuristic", Some(info.asn)))
             ELSE IF info.is_vpn # 0
             THEN Some(Detection("vpn", 85, "known VPN provider", "heuristic",
                                 Some(info.asn)))
             ELSE Some(Detection("residential", 60, "appears residential",
                                 "heuristic", Some(info.asn)))

(* An ASN layer whose result is taken whatever its confidence.             *)
AsnResultTrustedAlways(asnResult, config) == asnResult # Null

(* asnResult && asnResult.confidence >= confidenceThreshold                *)
AsnResultTrusted(asnResult, config) ==
    asnResult # Null /\ The(asnResult).confidence >= config.confidenceThreshold

hasPositiveIndicators(result) ==
    result.isProxy \/ result.isVPN \/ result.isTor \/ result.isHosting

providerResultToDetection(result) ==
    Detection(IF result.isTor THEN "tor"
              ELSE IF result.isVPN THEN "vpn"
              ELSE IF result.isProxy THEN "proxy"
              ELSE IF result.isHosting THEN "hosting"
              ELSE "residential",
              result.confidence, "Provider detected", "provider", result.asn)

(* Layer 6, the fallback.                                                  *)
FallbackDetection ==
    Detection("unknown", 30, "No classification data available", "heuristic", Null)

getProviderCache(table, ip, provider, t) ==
    {r \in table : /\ r.ip = ip /\ r.provider = provider
                   /\ SqlTextGreater(r.expires_at, SqlNow(t))}

setProviderCache(table, ip, provider, response, config, t) ==
    {r \in table : ~(r.ip = ip /\ r.provider = provider)}
        \cup {[ip |-> ip, provider |-> provider, response |-> response,
               expires_at |-> SqlNow(t) + config.providerTTLSeconds]}

(* Layer 5, queryProviders from the i-th provider on, as far as it goes    *)
(* without a fetch: a cached response with a positive indicator ends it,   *)
(* one without passes to the next provider, and a provider with no cached  *)
(* response is asked (the call awaits).  provider is where it stopped.     *)
RECURSIVE queryProviders(_, _, _, _, _)
queryProviders(table, providers, i, ip, t) ==
    IF i > Len(providers)
    THEN [awaits |-> FALSE, provider |-> i, detection |-> Null]
    ELSE LET cached == getProviderCache(table, ip, providers[i], t)
         IN  IF cached = {}
             THEN [awaits |-> TRUE, provider |-> i]
             ELSE IF hasPositiveIndicators(The(cached).response)
             THEN [awaits |-> FALSE, provider |-> i,
                   detection |-> Some(providerResultToDetection(The(cached).response))]
             ELSE queryProviders(table, providers, i + 1, ip, t)

(* A classification that flags a VPN as hosting as well.                   *)
buildClassificationVpnAsHostingToo(ip, detection, t) ==
    [ip |-> ip,
     isProxy |-> detection.type = "proxy", isVPN |-> detection.type = "vpn",
     isTor |-> detection.type = "tor",
     isHosting |-> detection.type \in {"hosting", "vpn"},
     isResidential |-> detection.type = "residential",
     confidence |-> detection.confidence, reason |-> detection.reason,
     source |-> detection.source, asn |-> detection.asn, checkedAt |-> t]

(* buildClassification.                                                    *)
buildClassification(ip, detection, t) ==
    [ip |-> ip,
     isProxy |-> detection.type = "proxy", isVPN |-> detection.type = "vpn",
     isTor |-> detection.type = "tor", isHosting |-> detection.type = "hosting",
     isResidential |-> detection.type = "residential",
     confidence |-> detection.confidence, reason |-> detection.reason,
     source |-> detection.source, asn |-> detection.asn, checkedAt |-> t]

(* upsertIPReputation: INSERT ... ON CONFLICT(ip) DO UPDATE.               *)
upsertIPReputation(table, classification, config, t) ==
    {r \in table : r.ip # classification.ip}
        \cup {[ip |-> classification.ip,
               is_proxy |-> IF classification.isProxy THEN 1 ELSE 0,
               is_vpn |-> IF classification.isVPN THEN 1 ELSE 0,
               is_tor |-> IF classification.isTor THEN 1 ELSE 0,
               is_hosting |-> IF classification.isHosting THEN 1 ELSE 0,
               is_residential |-> IF classification.isResidential THEN 1 ELSE 0,
               confidence |-> classification.confidence,
               reason |-> classification.reason, source |-> classification.source,
               asn |-> classification.asn, checked_at |-> classification.checkedAt,
               expires_at |-> SqlNow(t) + config.ipTTLSeconds]}

(* recordToClassification.                                                 *)
recordToClassification(record) ==
    [ip |-> record.ip,
     isProxy |-> record.is_proxy = 1, isVPN |-> record.is_vpn = 1,
     isTor |-> record.is_tor = 1, isHosting |-> record.is_hosting = 1,
     isResidential |-> record.is_residential = 1,
     confidence |-> record.confidence, reason |-> record.reason,
     source |-> record.source, asn |-> record.asn, checkedAt |-> record.checked_at]

(* trackClassificationType: the stat type counted.                         *)
ClassificationStat(classification) ==
    IF classification.isTor THEN "tor"
    ELSE IF classification.isVPN THEN "vpn"
    ELSE IF classification.isProxy THEN "proxy"
    ELSE IF classification.isHosting THEN "hosting"
    ELSE IF classification.isResidential THEN "residential"
    ELSE "unknown"

(* The store of the engine, as one record.                                 *)
IntelDB ==
    [ip_reputation |-> ip_reputation, asn_cache |-> asn_cache,
     tor_nodes |-> tor_nodes, ip_intel_blocks |-> ip_intel_blocks,
     provider_cache |-> provider_cache, ip_intel_stats |-> ip_intel_stats]

IntelBecomes(db) ==
    /\ ip_reputation' = db.ip_reputation
    /\ asn_cache' = db.asn_cache
    /\ tor_nodes' = db.tor_nodes
    /\ ip_intel_blocks' = db.ip_intel_blocks
    /\ provider_cache' = db.provider_cache
    /\ ip_intel_stats' = db.ip_intel_stats

(* classifyIP after runDetectionPipeline has returned detection: build,    *)
(* cache and count the classification, and return it.  call is what the    *)
(* call has kept since it began.                                           *)
ClassifyReturn(db, config, call, detection, t) ==
    LET classification == buildClassification(call.ip, detection, t)
    IN  IF call.fault = "reputation_write"
        THEN [done |-> TRUE, threw |-> TRUE, call |-> call, db |-> db]
        ELSE [done |-> TRUE, threw |-> FALSE, call |-> call,
              result |-> classification, fired |-> Some(detection.type),
              db |-> [db EXCEPT
                         !.ip_reputation =
                             upsertIPReputation(@, classification, config, t),
                         !.ip_intel_stats =
                             incrementStat(@, ClassificationStat(classification), t)]]

(* Layers 5 and 6 from the i-th provider on: return, or await the answer   *)
(* of a provider.  The call keeps in asked the answers it has read, from   *)
(* the provider cache on the way or from a provider.                       *)
ProvidersThenReturn(db, config, call, i, t) ==
    LET q == queryProviders(db.provider_cache, config.providers, i, call.ip, t)
        last == IF ~q.awaits /\ q.detection # Null THEN q.provider ELSE q.provider - 1
        read == [k \in 1 .. (last - i + 1) |->
                    [provider |-> config.providers[i + k - 1], cached |-> TRUE,
                     answer |-> {r.response :
                                    r \in getProviderCache(db.provider_cache, call.ip,
                                                           config.providers[i + k - 1], t)}]]
        kept == [call EXCEPT !.asked = @ \o read]
    IN  IF q.awaits
        THEN [done |-> FALSE, db |-> db,
              call |-> [kept EXCEPT !.stage = "provider", !.provider = q.provider]]
        ELSE ClassifyReturn(db, config, kept,
                            IF q.detection # Null THEN The(q.detection)
                            ELSE FallbackDetection, t)

(* classifyIP from its start to its first fetch or to its return: the      *)
(* cache, then layers 2 and 3 of runDetectionPipeline, then the fetch of   *)
(* lookupASN or the providers.                                             *)
(* fault names the store operation that throws during the call, if any:   *)
(* the read or the write of ip_reputation.                                 *)
ClassifySync(db, config, n, ip, bypassCache, fault, t) ==
    LET counted == [db EXCEPT !.ip_intel_stats = incrementStat(@, "check", t)]
        cached == getIPReputation(db.ip_reputation, ip, t)
        call == [n |-> n, ip |-> ip, bypassCache |-> bypassCache, at |-> t,
                 fault |-> fault,
                 blocks |-> db.ip_intel_blocks, tor |-> db.tor_nodes,
                 stage |-> "asn", provider |-> 0, asnInfo |-> Null,
                 asnBlocks |-> {}, asked |-> <<>>]
        manualBlock == checkManualBlocks(db.ip_intel_blocks, ip, t)
        torResult == checkTorExitNode(db.tor_nodes, ip)
    IN  IF ~bypassCache /\ fault = "reputation_read"
        THEN [done |-> TRUE, threw |-> TRUE, call |-> call, db |-> counted]
        ELSE IF ~bypassCache /\ cached # {}
        THEN [done |-> TRUE, threw |-> FALSE,
              call |-> [call EXCEPT !.stage = "cache"],
              fired |-> Null,
              result |-> [recordToClassification(The(cached)) EXCEPT !.source = "cache"],
              db |-> [counted EXCEPT
                         !.ip_intel_stats = incrementStat(@, "cache_hit", t)]]
        ELSE IF manualBlock # Null
        THEN ClassifyReturn(counted, config, call, The(manualBlock), t)
        ELSE IF config.torDetectionEnabled /\ torResult # Null
        THEN ClassifyReturn(counted, config, call, The(torResult), t)
        ELSE IF config.asnHeuristicsEnabled
        THEN [done |-> FALSE, db |-> counted, call |-> call]
        ELSE ProvidersThenReturn(counted, config, call, 1, t)

(* classifyIP from the answer of the fetch of lookupASN: the rest of layer *)
(* 4, then the providers.                                                  *)
ClassifyAfterAsn(db, config, call, response, t) ==
    LET asnInfo == lookupASN(db.asn_cache, response, t)
        asnResult == checkASNHeuristics(db.ip_intel_blocks, asnInfo, t)
        kept == [call EXCEPT !.asnInfo = asnInfo, !.asnBlocks = db.ip_intel_blocks]
    IN  IF AsnResultTrusted(asnResult, config)
        THEN ClassifyReturn(db, config, kept, The(asnResult), t)
        ELSE ProvidersThenReturn(db, config, kept, 1, t)

(* classifyIP from the answer of a provider: outcome is Null (check        *)
(* returned null or threw) or Some(result).                                *)
ClassifyAfterProvider(db, config, call, outcome, t) ==
    LET name == config.providers[call.provider]
        stored == IF outcome = Null THEN db
                  ELSE [db EXCEPT !.provider_cache =
                            setProviderCache(@, call.ip, name, The(outcome), config, t)]
        kept == [call EXCEPT !.asked =
                     Append(@, [provider |-> name, cached |-> FALSE,
                                answer |-> outcome])]
    IN  IF outcome # Null /\ hasPositiveIndicators(The(outcome))
        THEN ClassifyReturn(stored, config, kept,
                            providerResultToDetection(The(outcome)), t)
        ELSE ProvidersThenReturn(stored, config, kept, call.provider + 1, t)

(* What a completed classifyIP() leaves in lastOp: what it returned, or    *)
(* that its promise was rejected.                                          *)
ClassifyDone(out) ==
    IF out.threw
    THEN [op |-> "classify_threw", n |-> out.call.n, ip |-> out.call.ip,
          bypassCache |-> out.call.bypassCache, at |-> out.call.at,
          fault |-> out.call.fault]
    ELSE [op |-> "classify", n |-> out.call.n, ip |-> out.call.ip,
          bypassCache |-> out.call.bypassCache, at |-> out.call.at,
          fault |-> out.call.fault,
          blocks |-> out.call.blocks, tor |-> out.call.tor,
          stage |-> out.call.stage, asnInfo |-> out.call.asnInfo,
          asnBlocks |-> out.call.asnBlocks, asked |-> out.call.asked,
          fired |-> out.fired, result |-> out.result]

(* A step of a classifyIP() call: the store it leaves, and the call        *)
(* returned or suspended.  A call runs without interleaving between two    *)
(* fetches: the awaits in between are of promises already settled.         *)
ClassifyStep(n, out) ==
    /\ IntelBecomes(out.db)
    /\ IF out.done
       THEN /\ lookups' = {c \in lookups : c.n # n}
            /\ lastOp' = ClassifyDone(out)
       ELSE /\ lookups' = {c \in lookups : c.n # n} \cup {out.call}
            /\ lastOp' = [op |-> "await", n |-> n]
    /\ StoreUnchanged
    /\ UNCHANGED <<now, ticks, cfg, geoVars, intelCfg, torUpdater, issued, calls,
                   nAdmin, hist>>

(* POST /v1/ip/check, or the middleware: classifyIP(ip, bypassCache),      *)
(* during which the store operation fault names throws.                    *)
ClassifyBeginWith(ip, bypassCache, fault) ==
    /\ ClassifyStep(nCalls + 1,
                    ClassifySync(IntelDB, intelCfg, nCalls + 1, ip, bypassCache,
                                 fault, now))
    /\ nCalls' = nCalls + 1

ClassifyBegin(ip, bypassCache) == ClassifyBeginWith(ip, bypassCache, NoFault)

(* The fetch of lookupASN answers.                                         *)
ClassifyAsnResponse(call, response) ==
    /\ call \in lookups
    /\ call.stage = "asn"
    /\ ClassifyStep(call.n, ClassifyAfterAsn(IntelDB, intelCfg, call, response, now))
    /\ UNCHANGED nCalls

(* provider.check answers.                                                 *)
ClassifyProviderResponse(call, outcome) ==
    /\ call \in lookups
    /\ call.stage = "provider"
    /\ ClassifyStep(call.n,
                    ClassifyAfterProvider(IntelDB, intelCfg, call, outcome, now))
    /\ UNCHANGED nCalls

(* An operation on the blocks of the engine.                               *)
IntelAdmin(op, db) ==
    /\ IntelBecomes(db)
    /\ lastOp' = op
    /\ nAdmin' = nAdmin + 1
    /\ StoreUnchanged
    /\ UNCHANGED <<now, ticks, cfg, geoVars, intelCfg, lookups, torUpdater, issued,
                   calls, nCalls, hist>>

(* An addBlock that deletes the cached classification of a blocked address.*)
IntelAddBlockInvalidating(identifier, type, durationSeconds) ==
    IntelAdmin([op |-> "intel_block", identifier |-> identifier, type |-> type],
               [IntelDB EXCEPT !.ip_intel_blocks =
                    addManualBlock(@, identifier, type, durationSeconds, now),
                               !.ip_reputation =
                    {r \in @ : ~(type = "ip" /\ r.ip = identifier)}])

(* addBlock(identifier, type, reason, durationSeconds).                    *)
IntelAddBlock(identifier, type, durationSeconds) ==
    IntelAdmin([op |-> "intel_block", identifier |-> identifier, type |-> type],
               [IntelDB EXCEPT !.ip_intel_blocks =
                    addManualBlock(@, identifier, type, durationSeconds, now)])

(* removeBlock(identifier, type).                                          *)
IntelRemoveBlock(identifier, type) ==
    IntelAdmin([op |-> "intel_unblock", identifier |-> identifier, type |-> type],
               [IntelDB EXCEPT !.ip_intel_blocks =
                    removeManualBlock(@, identifier, type)])

(* runCleanup: the five DELETE statements, on the expired rows of          *)
(* ip_reputation, asn_cache, provider_cache and ip_intel_blocks and on the *)
(* counters older than 90 days.                                            *)
runCleanup(db, t) ==
    [db EXCEPT !.ip_reputation = {r \in @ : ~(r.expires_at < SqlNow(t))},
               !.asn_cache = {r \in @ : ~(r.expires_at < SqlNow(t))},
               !.provider_cache = {r \in @ : ~(r.expires_at < SqlNow(t))},
               !.ip_intel_blocks =
                   {r \in @ : ~(r.expires_at # Null /\ The(r.expires_at) < SqlNow(t))},
               !.ip_intel_stats = {r \in @ : ~(r.date < DayOfSql(SqlNow(t)) - 90)}]

(* POST /maintenance/cleanup.                                              *)
IntelCleanup ==
    IntelAdmin([op |-> "intel_cleanup"], runCleanup(IntelDB, now))

(* A validation that takes every line for an address.                     *)
isValidIPv4AnyLine(ip) == TRUE

(* isValidIPv4: four parts, each a number from 0 to 255.                   *)
isValidIPv4(ip) == Len(ip) = 4 /\ \A i \in 1 .. 4 : ip[i] \in 0 .. 255

(* An updateTorList that does not look at isUpdating.                      *)
TorUpdateBeginUnguarded ==
    /\ IF ~intelCfg.torDetectionEnabled
       THEN /\ lastOp' = [op |-> "tor_update", success |-> FALSE, fetched |-> FALSE]
            /\ UNCHANGED torUpdater
       ELSE /\ lastOp' = [op |-> "tor_fetch"]
            /\ torUpdater' = [torUpdater EXCEPT !.isUpdating = TRUE,
                                                !.fetches = @ + 1]
    /\ nAdmin' = nAdmin + 1
    /\ StoreUnchanged
    /\ UNCHANGED <<now, ticks, cfg, geoVars, intelCfg, intelTables, lookups, issued,
                   calls, nCalls, hist>>

(* updateTorList(), called by the scheduler, at startup or by POST         *)
(* /maintenance/tor-update, up to its await: it returns failure if an      *)
(* update is running or Tor detection is disabled, and otherwise sets      *)
(* isUpdating and fetches the list.                                        *)
TorUpdateBegin ==
    /\ IF torUpdater.isUpdating \/ ~intelCfg.torDetectionEnabled
       THEN /\ lastOp' = [op |-> "tor_update", success |-> FALSE, fetched |-> FALSE]
            /\ UNCHANGED torUpdater
       ELSE /\ lastOp' = [op |-> "tor_fetch"]
            /\ torUpdater' = [torUpdater EXCEPT !.isUpdating = TRUE,
                                                !.fetches = @ + 1]
    /\ nAdmin' = nAdmin + 1
    /\ StoreUnchanged
    /\ UNCHANGED <<now, ticks, cfg, geoVars, intelCfg, intelTables, lookups, issued,
                   calls, nCalls, hist>>

(* updateTorList() with the reset of isUpdating on the success path only,  *)
(* as it would be without the finally block.                               *)
TorListUpdateNoFinally(response) ==
    LET ips == {ip \in UNION response : isValidIPv4(ip)}
    IN  /\ torUpdater.fetches > 0
        /\ IF ips # {}
           THEN /\ tor_nodes' = syncTorNodes(tor_nodes, ips, now)
                /\ torUpdater' = [isUpdating |-> FALSE, lastUpdate |-> Some(now),
                                  fetches |-> torUpdater.fetches - 1]
           ELSE /\ tor_nodes' = tor_nodes
                /\ torUpdater' = [torUpdater EXCEPT !.fetches = @ - 1]
        /\ lastOp' = [op |-> "tor_update", success |-> ips # {}, fetched |-> TRUE,
                      response |-> response]
        /\ StoreUnchanged
        /\ UNCHANGED <<now, ticks, cfg, geoVars, intelCfg, ip_reputation, asn_cache,
                       ip_intel_blocks, provider_cache, ip_intel_stats, lookups,
                       issued, calls, nCalls, nAdmin, hist>>

(* updateTorList() from the answer of fetchTorExitList: response is Null   *)
(* (the fetch timed out or answered non-2xx, fetchTorExitList throws) or   *)
(* Some(lines), of which the valid addresses are the list.  An empty list  *)
(* and a failed fetch leave the table; finally isUpdating is reset.        *)
TorListUpdate(response) ==
    LET ips == {ip \in UNION response : isValidIPv4(ip)}
    IN  /\ torUpdater.fetches > 0
        /\ IF ips # {}
           THEN /\ tor_nodes' = syncTorNodes(tor_nodes, ips, now)
                /\ torUpdater' = [isUpdating |-> FALSE, lastUpdate |-> Some(now),
                                  fetches |-> torUpdater.fetches - 1]
           ELSE /\ tor_nodes' = tor_nodes
                /\ torUpdater' = [torUpdater EXCEPT !.isUpdating = FALSE,
                                                    !.fetches = @ - 1]
        /\ lastOp' = [op |-> "tor_update", success |-> ips # {}, fetched |-> TRUE,
                      response |-> response]
        /\ StoreUnchanged
        /\ UNCHANGED <<now, ticks, cfg, geoVars, intelCfg, ip_reputation, asn_cache,
                       ip_intel_blocks, provider_cache, ip_intel_stats, lookups,
                       issued, calls, nCalls, nAdmin, hist>>

----------------
(* SpecCounter: requests identified by their address, under every rate     *)
(* limit and window up to the bounds, in fixed- and sliding-window mode.   *)
(* RATE_LIMIT_DEFAULT, RATE_LIMIT_WINDOW_SECONDS, RATE_LIMIT_SLIDING_WINDOW*)
(* and ABUSE_BURST_WINDOW_SECONDS are set; the rest of config is default.  *)

CounterConfigs ==
    {[DefaultConfig EXCEPT !.defaultLimit = l, !.defaultWindowSeconds = w,
                           !.useSlidingWindow = s, !.burstWindowSeconds = 1] :
        l \in 1 .. MaxLimit, w \in 1 .. MaxWindowSeconds, s \in BOOLEAN}

CounterTickSteps == {1000}

AddressRequests == {[ip |-> a, apiKey |-> "", country |-> ""] : a \in IPs}

InitTables ==
    /\ now = StartInstant
    /\ ticks = 0
    /\ api_keys = {}
    /\ rate_limits = {}
    /\ bans = {}
    /\ settings = {}
    /\ blocked_countries = {}
    /\ request_logs = {}
    /\ issued = {}
    /\ nextId = 1
    /\ calls = {}
    /\ nCalls = 0
    /\ nAdmin = 0
    /\ hist = <<>>
    /\ lastOp = [op |-> "init"]
    /\ ip_reputation = {}
    /\ asn_cache = AsnSeeds(StartInstant)
    /\ tor_nodes = {}
    /\ ip_intel_blocks = {}
    /\ provider_cache = {}
    /\ ip_intel_stats = {}
    /\ lookups = {}
    /\ torUpdater = [isUpdating |-> FALSE, lastUpdate |-> Null, fetches |-> 0]

InitStore == InitTables /\ intelCfg = DefaultIntelConfig

InitCounter == InitStore /\ cfg \in CounterConfigs

(* The run is bounded: so many clock advances, calls and calls in flight. *)
MayTick(most) == ticks < most
MayCall(most, inFlight) == nCalls < most /\ Cardinality(calls) < inFlight
MayAdminister == nAdmin < MaxAdmin

NextCounter ==
    \/ \E step \in CounterTickSteps : MayTick(MaxTicks) /\ Tick(step)
    \/ \E r \in AddressRequests : MayCall(MaxCalls, MaxInFlight) /\ CheckBegin(r)
    \/ \E c \in calls : CheckResume(c)

SpecCounter == InitCounter /\ [][NextCounter]_vars

----------------------------------------------------------------------------
(* Claims checked under SpecCounter.                                       *)

HistIx == 1 .. Len(hist)
WindowMs == cfg.defaultWindowSeconds * MsPerSecond

SameIdentifier(a, b) ==
    a.identifier = b.identifier /\ a.identifier_type = b.identifier_type

(* The admissions of e's identifier in the span of window_seconds seconds  *)
(* that starts at e's instant.                                             *)
AdmittedInSpanFrom(e) ==
    {j \in HistIx : /\ hist[j].allowed
                    /\ SameIdentifier(hist[j], e)
                    /\ e.at <= hist[j].at
                    /\ hist[j].at < e.at + WindowMs}

(* The admissions of e's identifier in the clock-aligned window e is in.   *)
AdmittedInAlignedWindow(e) ==
    {j \in HistIx : /\ hist[j].allowed
                    /\ SameIdentifier(hist[j], e)
                    /\ hist[j].at \div WindowMs = e.at \div WindowMs}

(* C1 as stated: in fixed-window mode, no contiguous span of               *)
(* window_seconds seconds holds more than limit admissions of one          *)
(* identifier.                                                             *)
C1_AnySpanAtMostLimit ==
    ~cfg.useSlidingWindow =>
        \A i \in HistIx :
            hist[i].allowed =>
                Cardinality(AdmittedInSpanFrom(hist[i])) <= cfg.defaultLimit

(* C1 as amended: in fixed-window mode, every clock-aligned window of      *)
(* window_seconds seconds holds at most limit admissions of one            *)
(* identifier, and every contiguous span of window_seconds seconds at most *)
(* 2 * limit.                                                              *)
C1_AlignedWindowAtMostLimit ==
    ~cfg.useSlidingWindow =>
        \A i \in HistIx :
            /\ Cardinality(AdmittedInAlignedWindow(hist[i])) <= cfg.defaultLimit
            /\ Cardinality(AdmittedInSpanFrom(hist[i])) <= 2 * cfg.defaultLimit

(* C1's case: fixed-window mode, a span that straddles a window boundary   *)
(* holds more than limit admissions, and a check was denied in a full      *)
(* window.                                                                 *)
C1_Witness ==
    /\ ~cfg.useSlidingWindow
    /\ \E i \in HistIx :
          /\ hist[i].allowed
          /\ Cardinality(AdmittedInSpanFrom(hist[i])) > cfg.defaultLimit
    /\ \E i \in HistIx :
          /\ ~hist[i].allowed
          /\ Cardinality(AdmittedInAlignedWindow(hist[i])) = cfg.defaultLimit

(* The calls whose counter result is known and that were in flight         *)
(* together: those suspended at their await, and the one that returned     *)
(* last.                                                                   *)
Overlapping ==
    {[n |-> c.n, request |-> c.request, info |-> c.info] : c \in calls}
    \cup (IF lastOp.op = "check" /\ lastOp.info.reached
          THEN {[n |-> lastOp.n, request |-> lastOp.request, info |-> lastOp.info]}
          ELSE {})

SameBucket(a, b) ==
    /\ RequestIdentifier(a.request) = RequestIdentifier(b.request)
    /\ RequestIdentifierType(a.request) = RequestIdentifierType(b.request)
    /\ a.info.windowStart = b.info.windowStart

(* C2: of two calls in flight together on one bucket, the first of which   *)
(* found the bucket's count at limit - 1 and was admitted, the second is   *)
(* not admitted.                                                           *)
C2_OneSlotLeftOneAdmitted ==
    \A a \in Overlapping, b \in Overlapping :
        /\ a.n < b.n
        /\ SameBucket(a, b)
        /\ a.info.currentCount = a.info.result.limit - 1
        /\ a.info.result.allowed
        => ~b.info.result.allowed

(* C2's case: a call admitted with one slot left is suspended at its       *)
(* await, and a second call on the same bucket has run and returned.       *)
C2_Witness ==
    /\ lastOp.op = "check"
    /\ lastOp.info.reached
    /\ lastOp.resp.reason = "rate_limited"
    /\ \E a \in calls :
          /\ a.n < lastOp.n
          /\ SameBucket(a, lastOp)
          /\ a.info.currentCount = a.info.result.limit - 1
          /\ a.info.result.allowed

(* The call that has just been admitted by the sliding-window counter: it  *)
(* is suspended at its await and nothing has happened since.               *)
JustAdmittedSliding ==
    {c \in calls : /\ lastOp.op = "await"
                   /\ lastOp.n = c.n
                   /\ c.info.useSlidingWindow}

StoredCount(identifier, identifierType, windowStart) ==
    LET rows == SelectWindow(rate_limits, identifier, identifierType, windowStart)
    IN  IF rows = {} THEN 0 ELSE The(rows).request_count

(* prev * overlap + cur for call c's identifier, from the table as it is   *)
(* now, in units of 1 / c's window in ms.                                  *)
EffectiveNow(c) ==
    LET windowMs == c.info.result.windowSeconds * MsPerSecond
        id == RequestIdentifier(c.request)
        ty == RequestIdentifierType(c.request)
    IN  StoredCount(id, ty, c.info.windowStart - windowMs)
            * Max(0, windowMs - (now - c.info.windowStart))
        + StoredCount(id, ty, c.info.windowStart) * windowMs

(* C3 as stated: right after a sliding-window admission the effective      *)
(* weighted count, the increment included, does not exceed limit.          *)
C3_EffectiveAtMostLimit ==
    \A c \in JustAdmittedSliding :
        EffectiveNow(c) <= c.info.result.limit * c.info.result.windowSeconds * MsPerSecond

(* C3 as amended: right after a sliding-window admission the effective     *)
(* weighted count, the increment included, is below limit + 1.             *)
C3_EffectiveBelowLimitPlusOne ==
    \A c \in JustAdmittedSliding :
        EffectiveNow(c) <
            (c.info.result.limit + 1) * c.info.result.windowSeconds * MsPerSecond

(* C3's case: a sliding-window admission that found a previous window's    *)
(* count weighted by a fractional overlap, and left the effective count    *)
(* above limit.                                                            *)
C3_Witness ==
    \E c \in JustAdmittedSliding :
        /\ StoredCount(RequestIdentifier(c.request), RequestIdentifierType(c.request),
                       c.info.windowStart
                           - c.info.result.windowSeconds * MsPerSecond) > 0
        /\ now > c.info.windowStart
        /\ EffectiveNow(c) > c.info.result.limit * c.info.result.windowSeconds * MsPerSecond

(* The rank of call number n among the calls of its identifier that        *)
(* reached the counter store in the clock-aligned window of instant at.    *)
RankInWindow(n, identifier, identifierType, at, windowMs) ==
    Cardinality({j \in HistIx : /\ hist[j].n <= n
                                /\ hist[j].identifier = identifier
                                /\ hist[j].identifier_type = identifierType
                                /\ hist[j].at \div windowMs = at \div windowMs})

NoBanRow(identifier, identifierType) ==
    \A r \in bans : ~(r.identifier = identifier /\ r.identifier_type = identifierType)

(* C4: in fixed-window mode with limit L, for an identifier with no ban    *)
(* row (never banned, never flagged by the detector), the k-th check in an *)
(* aligned window returns (allowed, ok, remaining = L - k) while k <= L,   *)
(* and (denied, rate_limited, remaining = 0, retry_after = reset_at - now) *)
(* with reset_at = window_start + window_seconds after that.               *)
C4_FixedWindowDecisions ==
    (/\ lastOp.op = "check"
     /\ ~cfg.useSlidingWindow
     /\ lastOp.request.apiKey = ""
     /\ NoBanRow(lastOp.identifier, lastOp.identifierType))
    => LET k == RankInWindow(lastOp.n, lastOp.identifier, lastOp.identifierType,
                             lastOp.at, WindowMs)
           L == cfg.defaultLimit
           windowStartSeconds ==
               ((lastOp.at \div WindowMs) * WindowMs) \div MsPerSecond
       IN  /\ k >= 1
           /\ k <= L => /\ lastOp.resp.allowed
                        /\ lastOp.resp.reason = "ok"
                        /\ lastOp.resp.remaining = L - k
           /\ k > L => /\ ~lastOp.resp.allowed
                       /\ lastOp.resp.reason = "rate_limited"
                       /\ lastOp.resp.remaining = 0
                       /\ lastOp.resp.resetAt
                              = windowStartSeconds + cfg.defaultWindowSeconds
                       /\ lastOp.resp.retryAfter
                              = Some(lastOp.resp.resetAt - (lastOp.at \div MsPerSecond))

(* C4's case: the first check of a window is answered (allowed, ok,        *)
(* remaining = L - 1) after the window before it was used up and a check   *)
(* in it was denied.                                                       *)
C4_Witness ==
    /\ lastOp.op = "check"
    /\ ~cfg.useSlidingWindow
    /\ NoBanRow(lastOp.identifier, lastOp.identifierType)
    /\ lastOp.resp.allowed
    /\ lastOp.resp.remaining = cfg.defaultLimit - 1
    /\ \E j \in HistIx :
          /\ ~hist[j].allowed
          /\ hist[j].identifier = lastOp.identifier
          /\ hist[j].at \div WindowMs = (lastOp.at \div WindowMs) - 1

----------------------------------------------------------------------------
(* SpecBan: an administrator creates and removes bans on an address while  *)
(* requests from it are checked.  GEO_BLOCKING_ENABLED and                 *)
(* BLOCKED_COUNTRIES are set, and the rate limit is small.                 *)

BanConfigs ==
    {[DefaultConfig EXCEPT !.defaultLimit = MaxLimit,
                           !.defaultWindowSeconds = MaxWindowSeconds,
                           !.geoBlockingEnabled = TRUE,
                           !.blockedCountries = {"CN"}]}

BanTickSteps == {1000}

(* durationSeconds of a ban request: absent (permanent), or seconds.       *)
BanDurations == {Null, Some(1), Some(3)}

BanRequests == {[ip |-> a, apiKey |-> "", country |-> c] : a \in IPs, c \in {"", "CN"}}

InitBan == InitStore /\ cfg \in BanConfigs

NextBan ==
    \/ \E step \in BanTickSteps : MayTick(MaxAdminTicks) /\ Tick(step)
    \/ \E a \in IPs, d \in BanDurations :
          MayAdminister /\ BanAdminCreate(a, "ip", d)
    \/ \E id \in {r.id : r \in bans} : MayAdminister /\ BanAdminRemove(id)
    \/ \E r \in BanRequests : MayCall(MaxAdminCalls, MaxAdminInFlight) /\ CheckBegin(r)
    \/ \E c \in calls : CheckResume(c)

SpecBan == InitBan /\ [][NextBan]_vars

(* A ban row is active at instant t: permanent, or expiring strictly later.*)
ActiveAt(r, t) == r.expires_at = Null \/ The(r.expires_at) > t

BansOf(table, identifier, identifierType) ==
    {r \in table : r.identifier = identifier /\ r.identifier_type = identifierType}

(* C6: at every time and for every identifier, isCurrentlyBanned returns a *)
(* ban if and only if some stored row for the identifier is permanent or   *)
(* expires strictly later than now.                                        *)
C6_BannedIffUnexpiredRow ==
    \A a \in IPs :
        (isCurrentlyBanned(bans, a, "ip", now) # {})
            <=> (\E r \in BansOf(bans, a, "ip") : ActiveAt(r, now))

(* C5: a check made while an active ban exists for its identifier is       *)
(* denied with reason banned, whatever the request's country and the       *)
(* counter state; its retry_after is the seconds left until an active      *)
(* ban's expires_at, and is unset if that ban is permanent.                *)
C5_ActiveBanDeniesWithRetryAfter ==
    lastOp.op = "check" =>
        LET active == {r \in BansOf(lastOp.banned, lastOp.identifier,
                                    lastOp.identifierType) : ActiveAt(r, lastOp.at)}
        IN  active # {} =>
                /\ ~lastOp.resp.allowed
                /\ lastOp.resp.reason = "banned"
                /\ \E r \in active :
                      lastOp.resp.retryAfter =
                          IF r.expires_at = Null
                          THEN Null
                          ELSE Some(CeilDiv(The(r.expires_at) - lastOp.at, MsPerSecond))

----------------------------------------------------------------------------
(* SpecKeys: an administrator creates, rotates and deactivates API keys    *)
(* while requests carrying a key token are checked.  config is the         *)
(* default, in fixed- and sliding-window mode.                             *)

KeyConfigs == {[DefaultConfig EXCEPT !.useSlidingWindow = s] : s \in BOOLEAN}

KeyTickSteps == {1000}

(* Requests to create a key at instant t: all defaults; an own limit and   *)
(* window; an expiry one second ahead; and three that validation rejects.  *)
KeyCreateRequests(t) ==
    {[rateLimit |-> Null, windowSeconds |-> Null, expiresAt |-> Null]}
    \cup {[rateLimit |-> Some(l), windowSeconds |-> Some(MaxWindowSeconds),
           expiresAt |-> Null] : l \in 1 .. MaxLimit}
    \cup {[rateLimit |-> Some(1), windowSeconds |-> Some(1),
           expiresAt |-> Some(t + MsPerSecond)],
          [rateLimit |-> Some(0), windowSeconds |-> Null, expiresAt |-> Null],
          [rateLimit |-> Null, windowSeconds |-> Some(0), expiresAt |-> Null],
          [rateLimit |-> Null, windowSeconds |-> Null, expiresAt |-> Some(t)]}

(* Requests carrying a key token: one that was issued, or one that never   *)
(* was.                                                                    *)
TokenRequests ==
    {[ip |-> a, apiKey |-> k, country |-> ""] :
        a \in IPs, k \in issued \cup {UnknownToken}}

InitKeys == InitStore /\ cfg \in KeyConfigs

NextKeys ==
    \/ \E step \in KeyTickSteps : MayTick(MaxAdminTicks) /\ Tick(step)
    \/ \E request \in KeyCreateRequests(now) :
          MayAdminister /\ Cardinality(api_keys) < MaxKeys /\ KeyCreate(request)
    \/ \E id \in {r.id : r \in api_keys} \cup {nanoid(0)} :
          MayAdminister /\ KeyRotate(id)
    \/ \E id \in {r.id : r \in api_keys} \cup {nanoid(0)} :
          MayAdminister /\ KeyDeactivate(id)
    \/ \E r \in TokenRequests : MayCall(MaxAdminCalls, MaxAdminInFlight) /\ CheckBegin(r)
    \/ \E c \in calls : CheckResume(c)

SpecKeys == InitKeys /\ [][NextKeys]_vars

(* C7: no row of api_keys, rate_limits, bans or request_logs holds a       *)
(* plaintext key in any of its text columns.                               *)
C7_NoPlaintextStored ==
    \A p \in issued :
        /\ \A r \in api_keys : r.id # p /\ r.key_hash # p
        /\ \A r \in rate_limits : r.identifier # p
        /\ \A r \in bans : r.id # p /\ r.identifier # p
        /\ \A r \in request_logs : r.id # p /\ r.identifier # p

(* The active keys of table whose fingerprint is that of token.            *)
ActiveKeysOf(table, token) ==
    {r \in table : r.key_hash = hashKey(token) /\ r.is_active = 1}

(* The last operation was a check carrying a key token, whose identifier   *)
(* had no ban row when it started and has none now that it has returned    *)
(* (the detector flags an identifier by writing one).                      *)
TokenCheckNotBanned ==
    /\ lastOp.op = "check"
    /\ lastOp.request.apiKey # ""
    /\ BansOf(lastOp.banned, lastOp.identifier, lastOp.identifierType) = {}
    /\ BansOf(bans, lastOp.identifier, lastOp.identifierType) = {}

(* No earlier check with the token of the last check reached the counter   *)
(* store.                                                                  *)
FirstCountedCheck ==
    \A j \in HistIx :
        hist[j].identifier = lastOp.identifier => hist[j].n >= lastOp.n

(* C8: a check carrying a key token, its identifier neither banned nor     *)
(* geo-blocked, is denied with invalid_key if the token matches no active  *)
(* key, denied with expired_key if the key's expires_at has passed, and    *)
(* otherwise counted against the key's own limit and window_seconds; the   *)
(* first counted check of a key returns (allowed, ok, remaining =          *)
(* key.limit - 1).  (expires_at = now is C9's case.)                       *)
C8_KeyTokenDecisions ==
    (TokenCheckNotBanned /\ ~GeoBlocked(cfg, lastOp.request)) =>
        LET matching == ActiveKeysOf(lastOp.keys, lastOp.request.apiKey)
        IN  /\ matching = {} => /\ ~lastOp.resp.allowed
                                /\ lastOp.resp.reason = "invalid_key"
            /\ \A k \in matching :
                  /\ (k.expires_at # Null /\ The(k.expires_at) < lastOp.at)
                        => /\ ~lastOp.resp.allowed
                           /\ lastOp.resp.reason = "expired_key"
                  /\ (k.expires_at = Null \/ The(k.expires_at) > lastOp.at)
                        => /\ lastOp.info.reached
                           /\ lastOp.info.result.limit = k.rate_limit
                           /\ lastOp.info.result.windowSeconds = k.window_seconds
                           /\ lastOp.resp.limit = Some(k.rate_limit)
                           /\ FirstCountedCheck
                                 => /\ lastOp.resp.allowed
                                    /\ lastOp.resp.reason = "ok"
                                    /\ lastOp.resp.remaining = k.rate_limit - 1

(* C8's cases: a first check with a key of its own limit was allowed; a    *)
(* check with an expired key was denied.                                   *)
C8_Witness ==
    /\ TokenCheckNotBanned
    /\ \E k \in ActiveKeysOf(lastOp.keys, lastOp.request.apiKey) :
          /\ k.rate_limit <= MaxLimit
          /\ k.expires_at = Null
          /\ FirstCountedCheck
          /\ lastOp.resp.allowed
          /\ lastOp.resp.remaining = k.rate_limit - 1

C8_WitnessExpired ==
    /\ TokenCheckNotBanned
    /\ lastOp.resp.reason = "expired_key"
    /\ \E k \in ActiveKeysOf(lastOp.keys, lastOp.request.apiKey) :
          k.expires_at # Null /\ The(k.expires_at) < lastOp.at

(* C9: a check with the plaintext of a key whose expires_at equals the     *)
(* current time is denied with expired_key.                                *)
C9_ExpiryAtNowIsExpired ==
    TokenCheckNotBanned =>
        \A k \in ActiveKeysOf(lastOp.keys, lastOp.request.apiKey) :
            k.expires_at = Some(lastOp.at) =>
                /\ isExpired(k, lastOp.at)
                /\ ~lastOp.resp.allowed
                /\ lastOp.resp.reason = "expired_key"

RotateDone == lastOp.op = "key_rotate" /\ lastOp.ok

(* C10 as stated: after rotate(id) on an existing key the prior plaintext  *)
(* looks up nothing, the new plaintext looks up the key, and the record    *)
(* returned has the id it had.                                             *)
C10_RotateSwapsPlaintext ==
    RotateDone =>
        /\ \A p \in lastOp.prior : lookupByKey(api_keys, p) = {}
        /\ \E k \in lookupByKey(api_keys, lastOp.plainTextKey) : k.id = lastOp.id
        /\ \A k \in lastOp.apiKey : k.id = lastOp.id

(* C10 as amended: after rotate(id) on an existing key the prior plaintext *)
(* looks up nothing and the record returned has the id it had; the new     *)
(* plaintext looks up the key if the key is active, and nothing if it was  *)
(* deactivated.                                                            *)
C10_RotateSwapsPlaintextOfActiveKey ==
    RotateDone =>
        /\ lastOp.prior # {}
        /\ \A p \in lastOp.prior : lookupByKey(api_keys, p) = {}
        /\ lastOp.apiKey # {}
        /\ \A k \in lastOp.apiKey : k.id = lastOp.id
        /\ lastOp.wasActive = 1 =>
              /\ lookupByKey(api_keys, lastOp.plainTextKey) # {}
              /\ \A k \in lookupByKey(api_keys, lastOp.plainTextKey) : k.id = lastOp.id
        /\ lastOp.wasActive = 0 => lookupByKey(api_keys, lastOp.plainTextKey) = {}

(* C10's case: an active key that had been looked up by its plaintext was  *)
(* rotated.                                                                *)
C10_Witness ==
    /\ RotateDone
    /\ lastOp.wasActive = 1
    /\ lastOp.prior # {}
    /\ \E i \in HistIx : hist[i].identifier \in lastOp.prior

(* C11: a check carrying a valid key is counted under the key's record id: *)
(* in fixed-window mode the count it finds is the number of checks         *)
(* admitted earlier in the same aligned window for the same key, whichever *)
(* plaintext (before or after a rotation) they carried.                    *)
C11_CountedUnderKeyId ==
    (/\ lastOp.op = "check"
     /\ lastOp.request.apiKey # ""
     /\ lastOp.info.reached
     /\ ~lastOp.info.useSlidingWindow)
    => \A i \in HistIx :
          (hist[i].n = lastOp.n /\ hist[i].keyId # {}) =>
              lastOp.info.currentCount =
                  Cardinality({j \in HistIx :
                      /\ hist[j].n < lastOp.n
                      /\ hist[j].allowed
                      /\ hist[j].keyId = hist[i].keyId
                      /\ hist[j].windowStart = hist[i].windowStart})

----------------
(* SpecGeo: requests carrying a country hint, while an administrator       *)
(* changes the settings registry.  ABUSE_GEO_BLOCKING_ENABLED and          *)
(* ABUSE_BLOCKED_COUNTRIES are set or not; the rest of config is default.  *)

GeoConfigs ==
    {[DefaultConfig EXCEPT !.geoBlockingEnabled = e, !.blockedCountries = b] :
        e \in BOOLEAN, b \in {{}, {"CN"}}}

Countries == {"CN", "cn", "US"}

GeoRequests == {[ip |-> a, apiKey |-> "", country |-> c] : a \in IPs, c \in Countries \cup {""}}

(* The lists PUT /settings/geo-blocking/countries is given.                *)
CountryLists == {{}, {"cn"}, {"CN", "us"}}

InitGeo == InitStore /\ cfg \in GeoConfigs

NextGeo ==
    \/ \E e \in BOOLEAN : MayAdminister /\ SettingsSetEnabled(e)
    \/ \E c \in Countries \cup {"", "CHN"} : MayAdminister /\ SettingsBlockCountry(c)
    \/ \E c \in Countries : MayAdminister /\ SettingsUnblockCountry(c)
    \/ \E l \in CountryLists : MayAdminister /\ SettingsReplaceCountries(l)
    \/ \E r \in GeoRequests : MayCall(MaxAdminCalls, MaxAdminInFlight) /\ CheckBegin(r)
    \/ \E c \in calls : CheckResume(c)

SpecGeo == InitGeo /\ [][NextGeo]_vars

(* The last operation was a check that carried a country hint and found no *)
(* ban row.                                                                *)
HintedCheck ==
    /\ lastOp.op = "check"
    /\ lastOp.request.country # ""
    /\ lastOp.banned = {}

(* C12: with geo-blocking enabled and a country blocked, in the startup    *)
(* configuration and in the settings registry alike, a check whose hint is *)
(* that country's code in any letter case is denied with geo_blocked, and  *)
(* no check is denied with geo_blocked unless its hint, upper-cased, is a  *)
(* blocked country of one of the two.                                      *)
C12_HintMatchedInAnyCase ==
    HintedCheck =>
        /\ (/\ cfg.geoBlockingEnabled
            /\ isGeoBlockingEnabled(settings)
            /\ toUpperCase(lastOp.request.country) \in cfg.blockedCountries
            /\ isCountryBlocked(blocked_countries, lastOp.request.country))
           => (~lastOp.resp.allowed /\ lastOp.resp.reason = "geo_blocked")
        /\ lastOp.resp.reason = "geo_blocked"
           => \/ toUpperCase(lastOp.request.country) \in cfg.blockedCountries
              \/ isCountryBlocked(blocked_countries, lastOp.request.country)

(* C13: the settings registry decides the geo step: a check with an        *)
(* upper-case country hint is denied with geo_blocked exactly when the     *)
(* registry's flag is on and the registry's list holds the hint, whatever  *)
(* the startup configuration says.                                         *)
C13_RegistryGovernsGeoStep ==
    (HintedCheck /\ lastOp.request.country = toUpperCase(lastOp.request.country))
    => (lastOp.resp.reason = "geo_blocked"
        <=> (/\ isGeoBlockingEnabled(settings)
             /\ isCountryBlocked(blocked_countries, lastOp.request.country)))

----------------
(* SpecAbuse: requests from one address under the abuse detector, with     *)
(* every request logged or only the denied ones, a burst threshold up to   *)
(* the bound, and a rate limit of 1 or the default one.                    *)

AbuseConfigs ==
    {[DefaultConfig EXCEPT !.logAllRequests = a, !.burstThreshold = b,
                           !.defaultLimit = l] :
        a \in BOOLEAN, b \in 1 .. MaxBurstThreshold,
        l \in {1, DefaultConfig.defaultLimit}}

AbuseTickSteps == {1000}

InitAbuse == InitStore /\ cfg \in AbuseConfigs

NextAbuse ==
    \/ \E step \in AbuseTickSteps : MayTick(MaxAdminTicks) /\ Tick(step)
    \/ \E r \in AddressRequests : MayCall(MaxCalls, MaxInFlight) /\ CheckBegin(r)
    \/ \E c \in calls : CheckResume(c)

SpecAbuse == InitAbuse /\ [][NextAbuse]_vars

(* The scenario of C14: every request logged, a rate limit far above the   *)
(* threshold, and the clock still inside the first burst window.           *)
BurstScenario ==
    /\ cfg.logAllRequests
    /\ cfg.defaultLimit > 2 * cfg.burstThreshold
    /\ now - StartInstant < cfg.burstWindowSeconds * MsPerSecond

(* C14: in the burst scenario, with threshold T, the checks before the     *)
(* T-th are allowed with reason ok; after the T-th there is a system ban   *)
(* whose reason is the absolute rule's and reports T requests; the check   *)
(* after the T-th is denied with reason banned and retry_after at most the *)
(* auto-ban duration.                                                      *)
C14_BurstScenarioDecisions ==
    (BurstScenario /\ lastOp.op = "check") =>
        /\ lastOp.n < cfg.burstThreshold
           => (lastOp.resp.allowed /\ lastOp.resp.reason = "ok")
        /\ lastOp.n = cfg.burstThreshold
           => \E r \in bans :
                 /\ r.identifier = lastOp.identifier
                 /\ r.created_by = "system"
                 /\ r.reason = [kind |-> "Burst detection", n |-> cfg.burstThreshold]
        /\ lastOp.n = cfg.burstThreshold + 1
           => /\ ~lastOp.resp.allowed
              /\ lastOp.resp.reason = "banned"
              /\ lastOp.resp.retryAfter # Null
              /\ The(lastOp.resp.retryAfter) <= cfg.defaultBanDurationSeconds

(* The ban createAutoBan makes for a call: created by system at the call's *)
(* instant, with the default duration.                                     *)
IsAutoBanOf(r, c) ==
    /\ r.identifier = RequestIdentifier(c.request)
    /\ r.identifier_type = RequestIdentifierType(c.request)
    /\ r.created_by = "system"
    /\ r.banned_at = SqlNow(c.at)
    /\ r.expires_at = Some(c.at + cfg.defaultBanDurationSeconds * MsPerSecond)

(* C15: when the detector has fired for a call that passed the rate limit, *)
(* the system ban with the default duration is in the store as the call    *)
(* reaches its await, and what the call returns is denied, banned,         *)
(* remaining 0, and the reset_at of the rate-limit step.                   *)
C15_FiredMeansBanAndBannedDecision ==
    /\ [](\A c \in calls :
            (lastOp.op = "await" /\ lastOp.n = c.n /\ c.abuseDetected)
            => (c.info.result.allowed /\ \E r \in bans : IsAutoBanOf(r, c)))
    /\ [][\A c \in calls :
            (c.abuseDetected /\ lastOp'.op = "check" /\ lastOp'.n = c.n)
            => (/\ \E r \in bans' : IsAutoBanOf(r, c)
                /\ lastOp'.resp = [allowed |-> FALSE, reason |-> "banned",
                                   remaining |-> 0,
                                   resetAt |-> c.info.result.resetAt,
                                   limit |-> Null, retryAfter |-> Null])]_vars

C15_Witness ==
    /\ lastOp.op = "check"
    /\ lastOp.step = "abuse"
    /\ lastOp.resp.reason = "banned"
    /\ lastOp.resp.resetAt > 0
    /\ \E r \in bans : r.created_by = "system" /\ r.identifier = lastOp.identifier

----------------
(* SpecFault: requests from one address or with an unknown token, every    *)
(* request logged or only the denied ones, a rate limit of 1 or the        *)
(* default one, and in each call at most one store operation that throws.  *)

FaultRequests ==
    AddressRequests \cup {[ip |-> "", apiKey |-> UnknownToken, country |-> ""]}

FaultConfigs ==
    {[DefaultConfig EXCEPT !.logAllRequests = a, !.defaultLimit = l] :
        a \in BOOLEAN, l \in {1, DefaultConfig.defaultLimit}}

InitFault == InitStore /\ cfg \in FaultConfigs

NextFault ==
    \/ \E step \in AbuseTickSteps : MayTick(MaxAdminTicks) /\ Tick(step)
    \/ \E r \in FaultRequests, f \in Faults \cup {NoFault} :
          MayCall(MaxAdminCalls, MaxAdminInFlight) /\ CheckBeginWith(r, f)
    \/ \E c \in calls : CheckResume(c)

SpecFault == InitFault /\ [][NextFault]_vars

FailOpenResponse ==
    [allowed |-> TRUE, reason |-> "ok", remaining |-> 0, resetAt |-> 0,
     limit |-> Null, retryAfter |-> Null]

(* The last check returned before it came to the store operation that was *)
(* to fail, as its decision shows.                                         *)
ReturnedBeforeFault ==
    LET reason == lastOp.resp.reason
        denied == ~lastOp.resp.allowed
    IN  CASE lastOp.fault = "ban_lookup" -> FALSE
          [] lastOp.fault = "key_lookup" ->
                 \/ lastOp.request.apiKey = ""
                 \/ denied /\ reason \in {"banned", "geo_blocked"}
          [] lastOp.fault = "counter" ->
                 denied /\ reason \in {"banned", "geo_blocked", "invalid_key",
                                       "expired_key"}
          [] lastOp.fault = "log_count" -> denied /\ lastOp.step # "abuse"
          [] lastOp.fault = "ban_insert" -> lastOp.step # "abuse"
          [] lastOp.fault = "log_insert" ->
                 lastOp.resp.allowed /\ ~cfg.logAllRequests
          [] OTHER -> TRUE

AutoBanFailed(c) == c \in calls /\ c.threw /\ c.fault = "ban_insert"

(* C17 as stated: when the insert of the auto-ban fails, the call returns  *)
(* the decision of the rate-limit step, allowed.                           *)
C17_AutoBanFailureKeepsRateLimitDecision ==
    [][\A c \in calls :
          (AutoBanFailed(c) /\ lastOp'.op = "check" /\ lastOp'.n = c.n)
          => lastOp'.resp = [allowed |-> TRUE, reason |-> "ok",
                             remaining |-> c.info.result.remaining,
                             resetAt |-> c.info.result.resetAt,
                             limit |-> Some(c.info.result.limit),
                             retryAfter |-> Null]]_vars

(* C17, amended: when the insert of the auto-ban fails, the call returns   *)
(* the fail-open decision (allowed, ok, remaining 0, reset_at 0), and it   *)
(* leaves no ban and no log row.                                           *)
C17_AutoBanFailureFailsOpen ==
    [][\A c \in calls :
          (AutoBanFailed(c) /\ lastOp'.op = "check" /\ lastOp'.n = c.n)
          => /\ lastOp'.resp = FailOpenResponse
             /\ bans' = bans
             /\ request_logs' = request_logs]_vars

C17_Witness ==
    /\ lastOp.op = "check"
    /\ lastOp.fault = "ban_insert"
    /\ lastOp.step = "fail_open"
    /\ lastOp.info.reached
    /\ lastOp.info.result.remaining > 0
    /\ lastOp.resp = FailOpenResponse

----------------
(* C18: in every state of SpecBan each identifier has at most one active   *)
(* ban row, a row being active when its expires_at is null or later than   *)
(* now.                                                                    *)
C18_AtMostOneActiveBan ==
    \A r \in bans, o \in bans :
        (/\ r.identifier = o.identifier
         /\ r.identifier_type = o.identifier_type
         /\ ActiveAt(r, now)
         /\ ActiveAt(o, now))
        => r = o

----------------
(* SpecIntel: classifyIP() calls for one address while an administrator    *)
(* adds and removes blocks and the Tor list is refreshed.  Tor detection   *)
(* or the ASN heuristics are disabled, or the confidence threshold is 60,  *)
(* or the configuration is the default; the one provider enabled is ip-api.*)

IntelConfigs ==
    {DefaultIntelConfig,
     [DefaultIntelConfig EXCEPT !.torDetectionEnabled = FALSE],
     [DefaultIntelConfig EXCEPT !.asnHeuristicsEnabled = FALSE],
     [DefaultIntelConfig EXCEPT !.confidenceThreshold = 60]}

IntelAddresses == {<<203, 0, 113, 7>>}

(* What an administrator blocks: the address, an ASN, a range that holds   *)
(* the address and one that does not.                                      *)
IntelBlocks ==
    {[identifier |-> a, type |-> "ip"] : a \in IntelAddresses}
        \cup {[identifier |-> <<64500>>, type |-> "asn"],
              [identifier |-> <<203, 0, 113, 0, 24>>, type |-> "range"],
              [identifier |-> <<198, 51, 100, 0, 24>>, type |-> "range"]}

(* Lists the Tor Project may answer with: empty, the address, and a line   *)
(* that is not an address.                                                 *)
TorLists == {{}, IntelAddresses, {<<203, 0, 113, 256>>}}

(* What the fetch of lookupASN may answer: nothing, a hosting ASN, a VPN   *)
(* ASN, an ASN of the cache flagged neither, an ASN not in the cache.      *)
AsnResponses == {Null, Some(16509), Some(136787), Some(16591), Some(64500)}

(* What ip-api may answer: nothing, no indicator, hosting, proxy.          *)
ProviderOutcomes ==
    {Null}
        \cup {Some([isProxy |-> p, isVPN |-> FALSE, isTor |-> FALSE, isHosting |-> h,
                    confidence |-> 75, asn |-> Null]) :
                 p \in BOOLEAN, h \in BOOLEAN}

InitIntel == InitTables /\ cfg = DefaultConfig /\ intelCfg \in IntelConfigs

NextIntel ==
    \/ \E step \in AbuseTickSteps : MayTick(MaxIntelTicks) /\ Tick(step)
    \/ \E b \in IntelBlocks, d \in {Null, Some(1)} :
          nAdmin < MaxIntelAdmin /\ IntelAddBlock(b.identifier, b.type, d)
    \/ \E b \in IntelBlocks :
          nAdmin < MaxIntelAdmin /\ IntelRemoveBlock(b.identifier, b.type)
    \/ nAdmin < MaxIntelAdmin /\ TorUpdateBegin
    \/ \E response \in {Null} \cup {Some(lines) : lines \in TorLists} :
          TorListUpdate(response)
    \/ \E ip \in IntelAddresses, bypassCache \in BOOLEAN :
          /\ nCalls < MaxIntelCalls
          /\ Cardinality(lookups) < MaxAdminInFlight
          /\ ClassifyBegin(ip, bypassCache)
    \/ \E c \in lookups, r \in AsnResponses : ClassifyAsnResponse(c, r)
    \/ \E c \in lookups, o \in ProviderOutcomes : ClassifyProviderResponse(c, o)

SpecIntel == InitIntel /\ [][NextIntel]_vars

(* The last operation was a classifyIP() call that did not return from the *)
(* cache.                                                                  *)
Classified == lastOp.op = "classify" /\ lastOp.stage # "cache"

BlockActiveAt(b, t) == b.expires_at = Null \/ The(b.expires_at) > SqlNow(t)

(* When the call began, the address or a range that holds it was blocked.  *)
ManuallyBlocked ==
    \E b \in lastOp.blocks :
        /\ BlockActiveAt(b, lastOp.at)
        /\ \/ b.identifier_type = "ip" /\ b.identifier = lastOp.ip
           \/ b.identifier_type = "range" /\ isIpInCidr(lastOp.ip, b.identifier)

(* When the call began, the address was on the Tor exit list.              *)
TorExit == \E r \in lastOp.tor : r.ip = lastOp.ip /\ r.is_exit = 1

OnlyFlag(result, type) ==
    /\ result.isProxy = (type = "proxy")
    /\ result.isVPN = (type = "vpn")
    /\ result.isTor = (type = "tor")
    /\ result.isHosting = (type = "hosting")
    /\ result.isResidential = (type = "residential")

C19_WitnessTor ==
    /\ Classified
    /\ TorExit
    /\ ~ManuallyBlocked
    /\ lastOp.blocks # {}
    /\ lastOp.result.source = "tor_list"

(* C20: a classification not returned from the cache, of an address with   *)
(* no manual block and no Tor entry that applies, whose ASN was resolved,  *)
(* is not manually blocked and is flagged neither hosting nor VPN, is      *)
(* residential with confidence 60.                                         *)
UnflaggedAsn ==
    /\ Classified
    /\ ~ManuallyBlocked
    /\ ~(intelCfg.torDetectionEnabled /\ TorExit)
    /\ lastOp.asnInfo # Null
    /\ \A i \in lastOp.asnInfo :
          /\ i.is_hosting = 0
          /\ i.is_vpn = 0
          /\ ~\E b \in lastOp.asnBlocks :
                 b.identifier_type = "asn" /\ b.identifier = <<i.asn>>

C20_UnflaggedAsnIsResidential ==
    UnflaggedAsn => /\ OnlyFlag(lastOp.result, "residential")
                    /\ lastOp.result.confidence = 60

(* C20, with the confidence threshold: the classification of such an       *)
(* address is residential with confidence 60 if the confidence threshold   *)
(* is at most 60; under a higher threshold (the default is 70) it is what  *)
(* the providers say, a positive indicator at the provider's confidence,   *)
(* or else unknown with confidence 30, and never residential.              *)
C20_ResidentialUnderThreshold ==
    UnflaggedAsn =>
        IF intelCfg.confidenceThreshold <= 60
        THEN /\ OnlyFlag(lastOp.result, "residential")
             /\ lastOp.result.confidence = 60
             /\ lastOp.result.source = "heuristic"
        ELSE \/ /\ lastOp.result.source = "provider"
                /\ \/ OnlyFlag(lastOp.result, "proxy")
                   \/ OnlyFlag(lastOp.result, "hosting")
                /\ lastOp.result.confidence = 75
             \/ /\ lastOp.result.source = "heuristic"
                /\ OnlyFlag(lastOp.result, "unknown")
                /\ lastOp.result.confidence = 30

C20_Witness ==
    /\ UnflaggedAsn
    /\ intelCfg = DefaultIntelConfig
    /\ lastOp.asnBlocks # {}
    /\ lastOp.result.confidence = 30

----------------
(* The flags of a classification that are set.                             *)
FlagsSet(result) ==
    {type \in {"proxy", "vpn", "tor", "hosting", "residential"} :
        \/ type = "proxy" /\ result.isProxy
        \/ type = "vpn" /\ result.isVPN
        \/ type = "tor" /\ result.isTor
        \/ type = "hosting" /\ result.isHosting
        \/ type = "residential" /\ result.isResidential}

----------------
(* SpecPipeline: classifyIP() calls for one address, with no block and an  *)
(* empty Tor list, while the clock advances by half a second or by half a  *)
(* second less than ipTTLSeconds.  The credentials of ipinfo and abuseipdb *)
(* are set or not; a read or the write of ip_reputation may throw.         *)

InitPipeline ==
    /\ InitTables
    /\ cfg = DefaultConfig
    /\ intelCfg \in {[DefaultIntelConfig EXCEPT !.providers = getProviders(credentials)] :
                        credentials \in SUBSET {"ipinfo", "abuseipdb"}}

NextPipeline ==
    \/ \E step \in {500, DefaultIntelConfig.ipTTLSeconds * MsPerSecond - 500} :
          MayTick(MaxAdminTicks) /\ Tick(step)
    \/ \E ip \in IntelAddresses, bypassCache \in BOOLEAN,
          fault \in {NoFault, "reputation_read", "reputation_write"} :
          /\ nCalls < MaxIntelCalls
          /\ Cardinality(lookups) < MaxAdminInFlight
          /\ ClassifyBeginWith(ip, bypassCache, fault)
    \/ \E c \in lookups, r \in {Null, Some(16509)} : ClassifyAsnResponse(c, r)
    \/ \E c \in lookups,
          o \in ProviderOutcomes
                   \cup {Some([isProxy |-> TRUE, isVPN |-> TRUE, isTor |-> tor,
                               isHosting |-> TRUE, confidence |-> 90,
                               asn |-> Null]) : tor \in BOOLEAN} :
          ClassifyProviderResponse(c, o)

SpecPipeline == InitPipeline /\ [][NextPipeline]_vars

(* The classifyIP() call that begins in a step: returned in lastOp, or     *)
(* suspended in lookups.                                                   *)
Begun ==
    IF lastOp'.op = "await"
    THEN CHOOSE c \in lookups' : c.n = nCalls'
    ELSE lastOp'

(* A classifyIP() call returns in a step with a classification computed    *)
(* by the pipeline.                                                        *)
ReturnsFresh ==
    /\ lastOp'.op = "classify"
    /\ lastOp'.stage # "cache"
    /\ nCalls' # nCalls \/ lookups' # lookups

SameVerdict(a, b) ==
    /\ FlagsSet(a) = FlagsSet(b)
    /\ a.confidence = b.confidence
    /\ a.reason = b.reason

----------------
(* C23: no classifyIP() call ends with its promise rejected: a call during *)
(* which a read or the write of ip_reputation throws returns the           *)
(* classification unknown with confidence 30.                              *)
C23_StoreFailureYieldsUnknown ==
    (lastOp.op \in {"classify", "classify_threw"} /\ lastOp.fault # NoFault)
    => /\ lastOp.op = "classify"
       /\ (\/ lastOp.fault = "reputation_read" /\ ~lastOp.bypassCache
           \/ lastOp.fault = "reputation_write" /\ lastOp.stage # "cache")
          => /\ FlagsSet(lastOp.result) = {}
             /\ lastOp.result.confidence = 30

----------------
(* What a classifyIP() call that has come to out may return (flags,        *)
(* confidence, reason and source), over the answers its fetches may get.   *)
RECURSIVE MayReturn(_, _)
MayReturn(out, t) ==
    IF out.done
    THEN IF out.threw THEN {}
         ELSE {[flags |-> FlagsSet(out.result), confidence |-> out.result.confidence,
                reason |-> out.result.reason, source |-> out.result.source]}
    ELSE IF out.call.stage = "asn"
    THEN UNION {MayReturn(ClassifyAfterAsn(out.db, intelCfg, out.call, r, t), t) :
                   r \in AsnResponses}
    ELSE UNION {MayReturn(ClassifyAfterProvider(out.db, intelCfg, out.call, o, t), t) :
                   o \in ProviderOutcomes}

(* C24: with no credential of a provider set, a classifyIP() call that     *)
(* runs from a state of the tables with no other call in flight can return *)
(* one classification only: two runs from that state return the same       *)
(* flags, confidence, reason and source.                                   *)
C24_SameStateSameClassification ==
    (lookups = {} /\ intelCfg.providers = getProviders({}))
    => \A ip \in IntelAddresses, bypassCache \in BOOLEAN :
          Cardinality(MayReturn(ClassifySync(IntelDB, intelCfg, nCalls + 1, ip,
                                             bypassCache, NoFault, now), now)) <= 1

----------------
(* The last operation was a classifyIP() call that came to the provider    *)
(* layer: no cache hit, no manual block, no Tor exit, no ASN resolved.     *)
CameToProviders ==
    /\ Classified
    /\ ~ManuallyBlocked
    /\ ~(intelCfg.torDetectionEnabled /\ TorExit)
    /\ lastOp.asnInfo = Null

PositiveAnswer(a) ==
    \E r \in a.answer : r.isProxy \/ r.isVPN \/ r.isTor \/ r.isHosting

(* C30: a call that comes to the provider layer reads the answers of the   *)
(* enabled providers, cached or fresh, in the order ipinfo (priority 5),   *)
(* abuseipdb (8), ip-api (10); it passes every provider that answers       *)
(* nothing or with no positive indicator, and stops at the first answer    *)
(* with one, which decides the classification: source provider, the        *)
(* confidence of the answer, and the one type that is the first set of     *)
(* tor, vpn, proxy, hosting.  With no such answer the classification is    *)
(* the fallback.                                                           *)
C30_FirstPositiveProviderDecides ==
    CameToProviders =>
        LET asked == lastOp.asked
            expected == SelectSeq(<<"ipinfo", "abuseipdb", "ip-api">>,
                                  LAMBDA name : \E i \in DOMAIN intelCfg.providers :
                                                    intelCfg.providers[i] = name)
        IN  /\ Len(asked) <= Len(expected)
            /\ \A k \in DOMAIN asked : asked[k].provider = expected[k]
            /\ \A k \in DOMAIN asked : k < Len(asked) => ~PositiveAnswer(asked[k])
            /\ IF asked # <<>> /\ PositiveAnswer(asked[Len(asked)])
               THEN \A r \in asked[Len(asked)].answer :
                       /\ lastOp.result.source = "provider"
                       /\ lastOp.result.confidence = r.confidence
                       /\ FlagsSet(lastOp.result)
                              = {IF r.isTor THEN "tor"
                                 ELSE IF r.isVPN THEN "vpn"
                                 ELSE IF r.isProxy THEN "proxy" ELSE "hosting"}
               ELSE /\ Len(asked) = Len(expected)
                    /\ FlagsSet(lastOp.result) = {}
                    /\ lastOp.result.confidence = 30
                    /\ lastOp.result.source = "heuristic"

(* ipinfo answered from the provider cache with no positive indicator,     *)
(* abuseipdb answered nothing, and ip-api said proxy, VPN and hosting.     *)
C30_Witness ==
    /\ CameToProviders
    /\ Len(lastOp.asked) = 3
    /\ lastOp.asked[1].provider = "ipinfo"
    /\ lastOp.asked[1].cached
    /\ lastOp.asked[2].answer = Null
    /\ \E r \in lastOp.asked[3].answer : r.isVPN /\ r.isProxy /\ r.isHosting /\ ~r.isTor
    /\ FlagsSet(lastOp.result) = {"vpn"}

----------------
(* An updateTorList() call begins in a step.                               *)
TorUpdateCalled == nAdmin' # nAdmin /\ lastOp'.op \in {"tor_fetch", "tor_update"}

(* C28: at most one fetch of the Tor list is in flight, and isUpdating is  *)
(* set exactly while it is; an updateTorList() called while one is in      *)
(* flight returns failure at once, starts no fetch and writes nothing.     *)
C28_OneTorFetchAtATime ==
    /\ [](/\ torUpdater.fetches <= 1
          /\ torUpdater.isUpdating <=> torUpdater.fetches = 1)
    /\ [][(TorUpdateCalled /\ torUpdater.fetches > 0)
          => /\ lastOp' = [op |-> "tor_update", success |-> FALSE, fetched |-> FALSE]
             /\ UNCHANGED <<torUpdater, intelTables>>]_vars

(* An update was refused while a fetch was in flight.                      *)
C28_Witness ==
    /\ lastOp.op = "tor_update"
    /\ ~lastOp.fetched
    /\ intelCfg.torDetectionEnabled
    /\ torUpdater.fetches = 1
    /\ torUpdater.isUpdating

(* C29: an update whose fetch failed, or whose list holds no valid         *)
(* address, reports success = false and leaves tor_nodes and lastUpdate    *)
(* as they were.                                                           *)
C29_FailedUpdateKeepsTheList ==
    [][(/\ lastOp'.op = "tor_update"
        /\ torUpdater'.fetches < torUpdater.fetches
        /\ \A lines \in lastOp'.response :
              \A ip \in lines : \E i \in DOMAIN ip : ip[i] < 0 \/ ip[i] > 255)
       => /\ ~lastOp'.success
          /\ tor_nodes' = tor_nodes
          /\ torUpdater'.lastUpdate = torUpdater.lastUpdate]_vars

(* An update failed on a list with no valid address after one that had     *)
(* succeeded: the table and lastUpdate are those of the first.             *)
C29_Witness ==
    /\ lastOp.op = "tor_update"
    /\ lastOp.fetched
    /\ ~lastOp.success
    /\ lastOp.response = Some({<<203, 0, 113, 256>>})
    /\ tor_nodes # {}
    /\ torUpdater.lastUpdate # Null
    /\ ~torUpdater.isUpdating

----------------------------------------------------------------------------
(* The baseline rule of detectAbuse.                                       *)
(* Every request is logged, the absolute threshold is out of reach, the    *)
(* burst window is one minute and the clock advances by one minute, so     *)
(* that rows leave the burst window and stay in the baseline hour; the     *)
(* multiplier is the default one or one that the rates of a run reach.     *)

BaselineConfigs ==
    {[DefaultConfig EXCEPT !.logAllRequests = TRUE, !.burstWindowSeconds = w,
                           !.burstMultiplier = m] :
        w \in {DefaultConfig.burstWindowSeconds, SecondsPerMinute},
        m \in {DefaultConfig.burstMultiplier, 30}}

InitBaseline == InitStore /\ cfg \in BaselineConfigs

NextBaseline ==
    \/ \E step \in {SecondsPerMinute * MsPerSecond} : MayTick(MaxAdminTicks) /\ Tick(step)
    \/ \E r \in AddressRequests : MayCall(MaxCalls, MaxInFlight) /\ CheckBegin(r)
    \/ \E c \in calls : CheckResume(c)

SpecBaseline == InitBaseline /\ [][NextBaseline]_vars

(* The log rows of an identifier younger than so many seconds at instant t.*)
RowsSince(identifier, seconds, t) ==
    Cardinality({r \in request_logs :
                    /\ r.identifier = identifier
                    /\ r.timestamp > (t \div MsPerSecond) - seconds})

----------------------------------------------------------------------------
(* The write policy of the request log.                                    *)
(* Every request logged or only the denied ones, a rate limit of 1 or the  *)
(* default one, geo-blocking on with one blocked country; requests with an *)
(* address and a country or none, with a key token, and with neither an    *)
(* address nor a token; keys created with and without an expiry.           *)

LogConfigs ==
    {[DefaultConfig EXCEPT !.logAllRequests = a, !.defaultLimit = l,
                           !.geoBlockingEnabled = TRUE, !.blockedCountries = {"CN"}] :
        a \in BOOLEAN, l \in {1, DefaultConfig.defaultLimit}}

InitLog == InitStore /\ cfg \in LogConfigs

NextLog ==
    \/ \E step \in KeyTickSteps : MayTick(MaxAdminTicks) /\ Tick(step)
    \/ \E request \in KeyCreateRequests(now) :
          MayAdminister /\ Cardinality(api_keys) < MaxKeys /\ KeyCreate(request)
    \/ \E r \in BanRequests \cup TokenRequests
                    \cup {[ip |-> "", apiKey |-> "", country |-> ""]} :
          MayCall(MaxAdminCalls, MaxAdminInFlight) /\ CheckBegin(r)
    \/ \E c \in calls : CheckResume(c)

SpecLog == InitLog /\ [][NextLog]_vars

(* A check() returns its decision in a step.                               *)
Decided == lastOp'.op = "check"

(* The rows a step appends to request_logs.                                *)
Appended == request_logs' \ request_logs

----------------------------------------------------------------------------
(* The counter store under interleaved calls.                              *)

(* The calls before number n that the counter store admitted to the bucket *)
(* (identifier, identifierType, windowStart).                              *)
AdmittedBefore(n, identifier, identifierType, windowStart) ==
    {j \in HistIx : /\ hist[j].n < n
                    /\ hist[j].allowed
                    /\ hist[j].identifier = identifier
                    /\ hist[j].identifier_type = identifierType
                    /\ hist[j].windowStart = windowStart}

(* C27: under any interleaving of check() calls on one identifier and      *)
(* window, the N-th request the counter store admits to a bucket read the  *)
(* count N - 1, and every bucket's stored count is the number of requests  *)
(* the counter store admitted to it: no increment is lost and none is      *)
(* counted that was not admitted.                                          *)
C27_CountIsAdmissions ==
    /\ \A c \in Overlapping :
          c.info.result.allowed
          => c.info.currentCount
                = Cardinality(AdmittedBefore(c.n, RequestIdentifier(c.request),
                                             RequestIdentifierType(c.request),
                                             c.info.windowStart))
    /\ \A r \in rate_limits :
          r.request_count
             = Cardinality(AdmittedBefore(nCalls + 1, r.identifier, r.identifier_type,
                                          r.window_start))
    /\ \A j \in HistIx :
          hist[j].allowed
          => SelectWindow(rate_limits, hist[j].identifier, hist[j].identifier_type,
                          hist[j].windowStart) # {}

(* Two calls are suspended together after the counter store admitted both  *)
(* to one bucket: the first read 0, the second read 1, and the bucket      *)
(* holds 2.                                                                *)
C27_Witness ==
    \E a \in calls, b \in calls :
        /\ a.n < b.n
        /\ SameBucket(a, b)
        /\ a.info.result.allowed
        /\ b.info.result.allowed
        /\ a.info.currentCount = 0
        /\ b.info.currentCount = 1
        /\ StoredCount(RequestIdentifier(b.request), RequestIdentifierType(b.request),
                       b.info.windowStart) = 2

----------------------------------------------------------------------------
(* CIDR membership.                                                        *)
(* isIpInCidr is applied to addresses and ranges whose octets differ in    *)
(* their first, last and middle bits, under every prefix length from -1 to *)
(* 33, and to one text that is not an address.                             *)

CidrAddresses ==
    {<<a, b, c, d>> : a \in {10, 11, 138}, b \in {0, 64}, c \in {112, 113},
                      d \in {0, 1, 128, 255}}

InitCidr == InitStore /\ cfg = DefaultConfig

(* checkManualBlocks calls the helper on an address and a range block.     *)
CidrCheck(ip, cidr) ==
    /\ lastOp' = [op |-> "isIpInCidr", ip |-> ip, cidr |-> cidr,
                  member |-> isIpInCidr(ip, cidr)]
    /\ StoreUnchanged
    /\ UNCHANGED <<now, ticks, cfg, intelVars, geoVars, issued, calls, nCalls, nAdmin, hist>>

(* One call in a run.                                                      *)
NextCidr ==
    /\ lastOp.op = "init"
    /\ \E ip \in CidrAddresses \cup {<<10, 0, 112, 256>>}, range \in CidrAddresses,
          bits \in -1 .. 33 :
          CidrCheck(ip, range \o <<bits>>)

SpecCidr == InitCidr /\ [][NextCidr]_vars

(* Bit i (1 the first, 32 the last) of an address's 32-bit number.         *)
AddressBit(ip, i) == (ip[((i - 1) \div 8) + 1] \div (2 ^ (7 - ((i - 1) % 8)))) % 2

(* C31: for a valid address x and a range b/N with 0 <= N <= 32,           *)
(* isIpInCidr is true iff x and b agree under the mask of N leading        *)
(* one-bits, that is in their first N bits; so every address is in its own *)
(* /32, every valid address is in 0.0.0.0/0 and in every other /0, and     *)
(* a.b.c.d is in a.b.c.0/24 for every d.                                   *)
C31_CidrMembership ==
    (/\ lastOp.op = "isIpInCidr"
     /\ \A i \in 1 .. 4 : lastOp.ip[i] \in 0 .. 255
     /\ lastOp.cidr[5] \in 0 .. 32)
    => LET x == lastOp.ip
           b == SubSeq(lastOp.cidr, 1, 4)
           N == lastOp.cidr[5]
       IN  /\ lastOp.member <=> \A i \in 1 .. N : AddressBit(x, i) = AddressBit(b, i)
           /\ (N = 32 /\ x = b) => lastOp.member
           /\ N = 0 => lastOp.member
           /\ (N = 24 /\ b = <<x[1], x[2], x[3], 0>>) => lastOp.member

(* An address was found in a /0 whose base differs from it in its first    *)
(* bit.                                                                    *)
C31_Witness ==
    /\ lastOp.op = "isIpInCidr"
    /\ lastOp.ip = <<138, 0, 112, 255>>
    /\ lastOp.cidr = <<10, 64, 113, 0, 0>>
    /\ lastOp.member

----------------------------------------------------------------------------
(* Retention of the counter store.                                         *)
(* Windows of one hour and of three hours, in fixed- and sliding-window    *)
(* mode; the clock advances by an hour, by five and a half hours and by 21 *)
(* hours, so that a run crosses midnight; cleanup passes between checks.   *)

RetentionConfigs ==
    {[DefaultConfig EXCEPT !.defaultWindowSeconds = w, !.useSlidingWindow = s,
                           !.defaultLimit = MaxLimit] :
        w \in {3600, 3 * 3600}, s \in BOOLEAN}

InitRetention == InitStore /\ cfg \in RetentionConfigs

(* A maintenance job calls RateLimitRepository.cleanup().                  *)
CounterCleanup ==
    /\ rate_limits' = RateLimitCleanup(rate_limits, now)
    /\ lastOp' = [op |-> "cleanup",
                  deleted |-> Cardinality(rate_limits \ RateLimitCleanup(rate_limits, now))]
    /\ nAdmin' = nAdmin + 1
    /\ UNCHANGED <<now, ticks, cfg, intelVars, geoVars, api_keys, bans, request_logs,
                   issued, nextId, calls, nCalls, hist>>

NextRetention ==
    \/ \E step \in {3600 * MsPerSecond, 19800 * MsPerSecond, 21 * 3600 * MsPerSecond} :
          MayTick(MaxAdminTicks) /\ now + step < 3 * SecondsPerDay * MsPerSecond
          /\ Tick(step)
    \/ MayAdminister /\ CounterCleanup
    \/ \E r \in AddressRequests : MayCall(MaxAdminCalls, MaxAdminInFlight) /\ CheckBegin(r)
    \/ \E c \in calls : CheckResume(c)

SpecRetention == InitRetention /\ [][NextRetention]_vars

(* C32: for every configured window length, a cleanup pass deletes no      *)
(* bucket whose window_start is at or after now - 2 * window_seconds, so   *)
(* the current and the previous window's buckets are kept.                 *)
C32_CleanupKeepsTwoWindows ==
    [][lastOp'.op = "cleanup"
       => \A r \in rate_limits :
             r.window_start >= now - 2 * WindowMs => r \in rate_limits']_vars

----------------------------------------------------------------------------
(* The sliding window at a window boundary.                                *)

(* The check that returned last reached the sliding-window counter at the  *)
(* first instant of its window: elapsed = 0, overlap = 1.                  *)
AtWindowStart ==
    /\ lastOp.op = "check"
    /\ lastOp.info.reached
    /\ lastOp.info.useSlidingWindow
    /\ lastOp.at = lastOp.info.windowStart

(* The count of the window before the one of the check that returned last. *)
PreviousCount ==
    StoredCount(lastOp.identifier, lastOp.identifierType,
                lastOp.info.windowStart - lastOp.info.result.windowSeconds * MsPerSecond)

(* C33: at the first instant of a window the sliding-window counter admits *)
(* a check iff prev + cur < limit; so after a window that took limit       *)
(* admissions the first check of the next window is denied with            *)
(* rate_limited.                                                           *)
C33_BoundaryCountsWholePrevious ==
    AtWindowStart
    => /\ lastOp.info.result.allowed
          <=> PreviousCount + lastOp.info.currentCount < lastOp.info.result.limit
       /\ PreviousCount = lastOp.info.result.limit
          => /\ ~lastOp.resp.allowed
             /\ lastOp.resp.reason = "rate_limited"

(* The first check of a window was denied with rate_limited: its own       *)
(* window held no admission and the window before it had taken limit.      *)
C33_Witness ==
    /\ AtWindowStart
    /\ lastOp.info.currentCount = 0
    /\ PreviousCount = lastOp.info.result.limit
    /\ lastOp.resp.reason = "rate_limited"
    /\ lastOp.info.result.windowSeconds = MaxWindowSeconds

----------------------------------------------------------------------------
(* The range of a bucket's count.                                          *)

(* request_count of the bucket in a table, 0 if there is no such row.      *)
CountIn(table, identifier, identifierType, windowStart) ==
    LET rows == SelectWindow(table, identifier, identifierType, windowStart)
    IN  IF rows = {} THEN 0 ELSE The(rows).request_count

(* The buckets of both tables.                                             *)
BucketsOf(old, new) ==
    {<<r.identifier, r.identifier_type, r.window_start>> : r \in old \cup new}

(* C34: with a limit that does not change, every bucket's count is between *)
(* 0 and limit, in fixed- and in sliding-window mode; a bucket is          *)
(* incremented, by one, only by a check that found it below the limit and  *)
(* was admitted by the counter store; a check the counter store denied,    *)
(* and every step that does not come to the counter store, changes no      *)
(* count.                                                                  *)
C34_CountWithinLimit ==
    /\ [](\A r \in rate_limits :
             r.request_count >= 0 /\ r.request_count <= cfg.defaultLimit)
    /\ [][LET reached == Len(hist') = Len(hist) + 1
              e == hist'[Len(hist')]
          IN  \A b \in BucketsOf(rate_limits, rate_limits') :
                  LET before == CountIn(rate_limits, b[1], b[2], b[3])
                      after == CountIn(rate_limits', b[1], b[2], b[3])
                  IN  IF /\ reached
                         /\ e.allowed
                         /\ b = <<e.identifier, e.identifier_type, e.windowStart>>
                      THEN before < cfg.defaultLimit /\ after = before + 1
                      ELSE after = before]_vars

(* A bucket is full and the check that returned last, on that bucket, was  *)
(* denied by the counter store, in a window that follows a used one.       *)
C34_Witness ==
    /\ lastOp.op = "check"
    /\ lastOp.info.reached
    /\ ~lastOp.info.result.allowed
    /\ lastOp.info.currentCount = cfg.defaultLimit
    /\ cfg.defaultLimit = MaxLimit
    /\ StoredCount(lastOp.identifier, lastOp.identifierType, lastOp.info.windowStart)
          = cfg.defaultLimit
    /\ Cardinality(rate_limits) = 2

----------------------------------------------------------------------------
(* The detector when only denied requests are logged.                      *)

----------------------------------------------------------------------------
(* Requests that carry an address and a key token.                         *)
(* Permanent bans are created on the address and on tokens, keys are       *)
(* created with the default limit or a limit of 1, and requests carry the  *)
(* address alone or the address with a token.                              *)

InitBoth == InitStore /\ cfg \in {DefaultConfig, [DefaultConfig EXCEPT !.logAllRequests = TRUE]}

NextBoth ==
    \/ \E step \in KeyTickSteps : MayTick(MaxIntelTicks) /\ Tick(step)
    \/ \E limit \in {Null, Some(1)} :
          /\ MayAdminister
          /\ Cardinality(api_keys) < MaxKeys
          /\ KeyCreate([rateLimit |-> limit, windowSeconds |-> Null, expiresAt |-> Null])
    \/ \E a \in IPs : MayAdminister /\ BanAdminCreate(a, "ip", Null)
    \/ \E k \in issued \cup {UnknownToken} :
          MayAdminister /\ BanAdminCreate(k, "api_key", Null)
    \/ \E r \in AddressRequests \cup TokenRequests :
          MayCall(MaxAdminCalls, MaxAdminInFlight) /\ CheckBegin(r)
    \/ \E c \in calls : CheckResume(c)

SpecBoth == InitBoth /\ [][NextBoth]_vars

(* The request of the check() call that runs in a step.                    *)
RunningRequest ==
    IF lastOp'.op = "check" THEN lastOp'.request
    ELSE (CHOOSE c \in calls' : c.n = lastOp'.n).request

(* A row is of the token, as an api_key identifier.                        *)
OfToken(r, request) ==
    r.identifier = request.apiKey /\ r.identifier_type = "api_key"

(* C36: when a request carries both an address and a key token, the ban    *)
(* lookup, the counter and the log use the api_key identifier only: the    *)
(* request is denied at the ban check only when a ban row of the token     *)
(* exists, whatever bans the address has, and every counter bucket, log    *)
(* row and ban the call writes is of the token.                            *)
C36_TokenIdentifierOnly ==
    [][(/\ lastOp'.op \in {"check", "await"}
        /\ RunningRequest.ip # ""
        /\ RunningRequest.apiKey # "")
       => /\ (lastOp'.op = "check" /\ lastOp'.step = "ban")
             => \E b \in lastOp'.banned : OfToken(b, RunningRequest)
          /\ \A r \in rate_limits' \ rate_limits : OfToken(r, RunningRequest)
          /\ \A r \in request_logs' \ request_logs : OfToken(r, RunningRequest)
          /\ \A b \in bans' \ bans : OfToken(b, RunningRequest)]_vars

(* A request with a valid key was admitted and counted under the token     *)
(* while a permanent ban of its address was in the store.                  *)
C36_Witness ==
    /\ lastOp.op = "check"
    /\ lastOp.request.ip # ""
    /\ lastOp.request.apiKey \in issued
    /\ lastOp.resp.allowed
    /\ lastOp.info.reached
    /\ \E b \in lastOp.banned :
          /\ b.identifier = lastOp.request.ip
          /\ b.identifier_type = "ip"
          /\ b.expires_at = Null
    /\ \E r \in rate_limits : OfToken(r, lastOp.request) /\ r.request_count = 1

----------------------------------------------------------------------------
(* The reputation cache and blocks added after it was written.             *)
(* Permanent blocks of the address, of a range that holds it and of an     *)
(* ASN are added; the Tor list is updated with the address, with another   *)
(* address, with an empty list or not at all (the fetch fails); expired    *)
(* rows are cleaned up; the clock advances by a second or by the TTL of    *)
(* the cache.                                                              *)

InitCached == InitTables /\ cfg = DefaultConfig /\ intelCfg = DefaultIntelConfig

NextCached ==
    \/ \E step \in {MsPerSecond, DefaultIntelConfig.ipTTLSeconds * MsPerSecond} :
          MayTick(MaxIntelTicks) /\ Tick(step)
    \/ \E b \in IntelBlocks :
          nAdmin < MaxIntelAdmin /\ IntelAddBlock(b.identifier, b.type, Null)
    \/ nAdmin < MaxIntelAdmin /\ IntelCleanup
    \/ nAdmin < MaxIntelAdmin /\ TorUpdateBegin
    \/ \E response \in {Null, Some({}), Some(IntelAddresses), Some({<<198, 51, 100, 1>>})} :
          TorListUpdate(response)
    \/ \E ip \in IntelAddresses, bypassCache \in BOOLEAN :
          /\ nCalls < MaxIntelCalls
          /\ Cardinality(lookups) < MaxAdminInFlight
          /\ ClassifyBegin(ip, bypassCache)
    \/ \E c \in lookups, r \in {Null, Some(64500)} : ClassifyAsnResponse(c, r)
    \/ \E c \in lookups : ClassifyProviderResponse(c, Null)

SpecCached == InitCached /\ [][NextCached]_vars

(* The address of the call that begins is blocked, itself or in a range.   *)
BlockedNow(ip) ==
    \E b \in ip_intel_blocks :
        /\ BlockActiveAt(b, now)
        /\ \/ b.identifier_type = "ip" /\ b.identifier = ip
           \/ b.identifier_type = "range" /\ isIpInCidr(ip, b.identifier)

----------------------------------------------------------------------------
(* The Tor exit table.                                                     *)

(* C38: no step deletes a row of tor_nodes or clears its is_exit: once     *)
(* isTorExitNode(a) is true it stays true after every later update, the    *)
(* ones whose list does not hold a included, and after every cleanup.      *)
C38_TorTableOnlyGrows ==
    [][\A r \in tor_nodes :
          \E q \in tor_nodes' : q.ip = r.ip /\ (r.is_exit = 1 => q.is_exit = 1)]_vars

(* An update succeeded with a list that does not hold the address, and the *)
(* address, listed by an earlier update, is still a Tor exit.              *)
C38_Witness ==
    /\ lastOp.op = "tor_update"
    /\ lastOp.success
    /\ lastOp.response = Some({<<198, 51, 100, 1>>})
    /\ \A a \in IntelAddresses : isTorExitNode(tor_nodes, a)
    /\ Cardinality(tor_nodes) = 2

-----------------
(* SpecCachedLive: SpecCached with the answer of the Tor list fetch weakly *)
(* fair.  fetchTorExitList() arms an AbortController with                  *)
(* setTimeout(() => controller.abort(), timeout), so a fetch that was      *)
(* started resolves with a list, throws on a non-2xx status or throws      *)
(* 'Tor list fetch timed out': the await in updateTorList() returns.       *)
SpecCachedLive ==
    /\ InitCached
    /\ [][NextCached]_vars
    /\ WF_vars(\E response \in {Null, Some({}), Some(IntelAddresses),
                                Some({<<198, 51, 100, 1>>})} :
                  TorListUpdate(response))

----------------------------------------------------------------------------
(* Denials ahead of the rate-limit step.                                   *)

(* The steps of check() that return before RateLimitRepository.check: the  *)
(* test of the identifier, the ban check, geo-blocking, the key lookup and *)
(* the key's expiry.                                                       *)
DeniedEarly ==
    /\ lastOp'.op = "check"
    /\ ~lastOp'.resp.allowed
    /\ lastOp'.step \in {"input", "ban", "geo", "key"}

(* C40: a check() denied before the rate-limit step (banned at the ban     *)
(* check, geo_blocked, invalid_key, expired_key) leaves every row of       *)
(* rate_limits and every row of bans as it was: it consumes no budget.     *)
C40_EarlyDenialLeavesCounters ==
    [][DeniedEarly
       => /\ rate_limits' = rate_limits
          /\ bans' = bans
          /\ ~lastOp'.info.reached
          /\ lastOp'.resp.reason \in {"banned", "geo_blocked", "invalid_key",
                                      "expired_key"}]_vars

(* A request with a key that was admitted once was then denied as          *)
(* expired_key; the bucket of its token still holds one request.           *)
C40_Witness ==
    /\ lastOp.op = "check"
    /\ lastOp.step = "key"
    /\ lastOp.resp.reason = "expired_key"
    /\ \E r \in rate_limits :
          /\ r.identifier = lastOp.identifier
          /\ r.identifier_type = "api_key"
          /\ r.request_count = 1
    /\ \A r \in rate_limits : r.request_count = 1

====
